---------------------------- MODULE Spec2Model ----------------------------
(***************************************************************************)
(* A model of the lobby's spatial layout and collision engine: the         *)
(* collision resolver and the movement controllers that call it, the       *)
(* scene loader's collider registry and navigation bounds, the catalog     *)
(* room layout engine with its token-guarded card pipeline, and the theme  *)
(* system's token-guarded prop pipeline.                                   *)
(*                                                                         *)
(* Lengths are integers in thousandths of a world unit (1.4 is 1400), so   *)
(* that the halves the code takes (size * 0.5) are exact for the even      *)
(* values the configurations below use.                                    *)
(***************************************************************************)
EXTENDS Integers, Sequences, FiniteSets, TLC

VARIABLES
    \* --- movement controller and collision resolver
    colliders,      \* sceneLoader's `colliders` array (the scene registry)
    roomBounds,     \* sceneLoader's shared `roomBounds` object
    playerPos,      \* player.position (x, z)
    lastHits,       \* value returned by the resolver in the last update
    res,            \* the last direct call of a pure function: input and output
    \* --- scene loader (sceneLoader.js, inside loadScene)
    sceneCfg,               \* sceneConfig.room and sceneConfig.zones
    baseFloorplanBounds,    \* navigable rectangles of the base annexes
    themeFloorplanBounds,   \* navigable rectangles of the theme annexes
    activeFloorplan,        \* history: the config last given to applyThemeFloorplan
    floorplanRecords,       \* annex groups in the scene, by floorplan tag
    propRecords,            \* prop wrappers in the scene, by theme tag
    regHist,                \* history: the current streak of removals by one tag
    \* --- catalog rooms (CatalogRoomSystem)
    catalogConfig,  \* this.catalogConfig with the two item feeds
    applyToken,     \* this.applyToken
    roomNodes,      \* this.roomNodes: per category, the indexes of its rooms
    cardGroups,     \* the card groups attached to the rooms' cardsGroup
    targets,        \* this.targets
    dynamicCards,   \* this.dynamicCards
    catColliders,   \* this.colliders
    apps,           \* the applyTheme calls: where each one is suspended
    lastBuilt,      \* history: per category, the theme of its last reconciliation
    \* --- theme switching (ThemeSystem, main.js, overlay.js)
    themeApplyToken,    \* ThemeSystem.applyToken
    currentThemeName,   \* ThemeSystem.currentThemeName ("" is null)
    selectValue,        \* the value of the theme selector in the overlay
    handlers,           \* the onThemeChange calls: where each one is suspended
    requests,           \* the themes requested so far, in order
    \* --- theme atmosphere (AtmosphereSystem)
    atmosphereToken,    \* AtmosphereSystem.applyToken
    atmosphereState,    \* this.state: the call whose nextState it holds (0 is null)
    sceneRoots,         \* the theme-atmosphere-root groups attached to the scene
    applies,            \* the apply calls, by token: where each one is suspended
    \* --- drift events (DriftEventsSystem); times in milliseconds
    driftConfig,    \* this.config, normalized
    driftSeed,      \* this.seed
    timeSeconds,    \* this.timeSeconds
    eventCounter,   \* this.eventCounter
    activeEvents,   \* this.activeEvents
    nextEventAt,    \* this.nextEventAt
    lastSnapshot,   \* this.lastSnapshot
    driftCall,      \* history: the last method called and its argument
    \* --- stability and objectives (StabilityObjectivesSystem); stability in
    \* thousandths. The stress and cooldown fields change only in update and
    \* setStressSource and are left out.
    objectivesConfig,   \* this.config, normalized
    stability,          \* this.stability
    objectives,         \* this.objectives
    allRequiredCompleteRewardGranted,   \* the field of that name
    rewards             \* history: the objectives' flags at each grant since the last reset

moveVars == <<playerPos, lastHits, res>>
catalogVars == <<catalogConfig, applyToken, roomNodes, cardGroups, targets,
                 dynamicCards, catColliders, apps, lastBuilt>>
sceneVars == <<colliders, roomBounds, sceneCfg, baseFloorplanBounds,
               themeFloorplanBounds, activeFloorplan,
               floorplanRecords, propRecords, regHist>>

atmosphereVars == <<atmosphereToken, atmosphereState, sceneRoots, applies>>

\* the systems that run beside the scene, the catalog and the theme switch
driftVars == <<driftConfig, driftSeed, timeSeconds, eventCounter, activeEvents,
               nextEventAt, lastSnapshot, driftCall>>

objectiveVars == <<objectivesConfig, stability, objectives,
                   allRequiredCompleteRewardGranted, rewards>>

systemVars == <<atmosphereVars, driftVars, objectiveVars>>

themeVars == <<themeApplyToken, currentThemeName, selectValue, handlers, requests,
              systemVars>>

vars == <<moveVars, sceneVars, catalogVars, themeVars>>

-----------------------------------------------------------------------------
(* Arithmetic helpers *)

Min(a, b) == IF a < b THEN a ELSE b
Max(a, b) == IF a > b THEN a ELSE b
Abs(a) == IF a < 0 THEN -a ELSE a
Half(a) == a \div 2

\* THREE.MathUtils.clamp and the local clamp helpers: max(min, min(max, value))
Clamp(value, lo, hi) == Max(lo, Min(hi, value))

-----------------------------------------------------------------------------
(* Collision resolver (collision.js) *)

\* `collider.enabled === false` skips a collider; an absent field is enabled
IsEnabled(c) == IF "enabled" \in DOMAIN c THEN c.enabled ELSE TRUE

IsInsideExpandedBoxLoose(position, radius, c) ==
    /\ position.x >= c.minX - radius
    /\ position.x <= c.maxX + radius
    /\ position.z >= c.minZ - radius
    /\ position.z <= c.maxZ + radius

IsInsideExpandedBox(position, radius, c) ==
    /\ position.x > c.minX - radius
    /\ position.x < c.maxX + radius
    /\ position.z > c.minZ - radius
    /\ position.z < c.maxZ + radius

\* a correction that leaves the position where it is
ResolveOneKept(position, radius, c) == position

ResolveOne(position, radius, c) ==
    LET minX == c.minX - radius
        maxX == c.maxX + radius
        minZ == c.minZ - radius
        maxZ == c.maxZ + radius
        distToMinX == Abs(position.x - minX)
        distToMaxX == Abs(maxX - position.x)
        distToMinZ == Abs(position.z - minZ)
        distToMaxZ == Abs(maxZ - position.z)
        smallest == Min(Min(distToMinX, distToMaxX), Min(distToMinZ, distToMaxZ))
    IN  IF smallest = distToMinX THEN [position EXCEPT !.x = minX]
        ELSE IF smallest = distToMaxX THEN [position EXCEPT !.x = maxX]
        ELSE IF smallest = distToMinZ THEN [position EXCEPT !.z = minZ]
        ELSE [position EXCEPT !.z = maxZ]

\* whether the resolver considers collider c at height sampleY
Applies(c, sampleY) ==
    /\ IsEnabled(c)
    /\ ~(sampleY < c.minY \/ sampleY > c.maxY)

\* one pass over the collider array from index i on; st = [pos, hits, hit]
RECURSIVE ResolvePass(_, _, _, _, _)
ResolvePass(st, cs, radius, sampleY, i) ==
    IF i > Len(cs) THEN st
    ELSE IF Applies(cs[i], sampleY) /\ IsInsideExpandedBox(st.pos, radius, cs[i])
         THEN ResolvePass([pos |-> ResolveOne(st.pos, radius, cs[i]),
                           hits |-> st.hits + 1, hit |-> TRUE],
                          cs, radius, sampleY, i + 1)
         ELSE ResolvePass(st, cs, radius, sampleY, i + 1)

RECURSIVE ResolvePasses(_, _, _, _, _)
ResolvePasses(st, cs, radius, sampleY, pass) ==
    IF pass >= 3 THEN st
    ELSE LET after == ResolvePass([st EXCEPT !.hit = FALSE], cs, radius, sampleY, 1)
         IN  IF ~after.hit THEN after
             ELSE ResolvePasses(after, cs, radius, sampleY, pass + 1)

\* resolvePositionAgainstColliders: the corrected position and the hit count
ResolvePositionAgainstColliders(position, cs, radius, sampleY) ==
    IF Len(cs) = 0 THEN [pos |-> position, hits |-> 0, hit |-> FALSE]
    ELSE ResolvePasses([pos |-> position, hits |-> 0, hit |-> FALSE],
                       cs, radius, sampleY, 0)

-----------------------------------------------------------------------------
(* Scene loader: navigation bounds (sceneLoader.js) *)

\* a configuration value that is absent (undefined)
Absent == 0 - 999999
\* `value ?? fallback`
Nullish(value, fallback) == IF value = Absent THEN fallback ELSE value
\* `Number(value) || fallback` and `value || fallback`
OrElse(value, fallback) == IF value = Absent \/ value = 0 THEN fallback ELSE value

\* no override object (null)
NoBounds == [given |-> FALSE, finite |-> TRUE,
             minX |-> 0, maxX |-> 0, minZ |-> 0, maxZ |-> 0]
AsOverride(b) == [given |-> TRUE, finite |-> TRUE,
                  minX |-> b.minX, maxX |-> b.maxX, minZ |-> b.minZ, maxZ |-> b.maxZ]

GetRoomBounds(size, margin, overrideBounds) ==
    IF /\ overrideBounds.given
       /\ overrideBounds.finite
       /\ overrideBounds.minX < overrideBounds.maxX
       /\ overrideBounds.minZ < overrideBounds.maxZ
    THEN [minX |-> overrideBounds.minX, maxX |-> overrideBounds.maxX,
          minZ |-> overrideBounds.minZ, maxZ |-> overrideBounds.maxZ]
    ELSE LET halfW == Half(OrElse(size[1], 30000)) - margin
             halfD == Half(OrElse(size[3], 30000)) - margin
         IN  [minX |-> -halfW, maxX |-> halfW, minZ |-> -halfD, maxZ |-> halfD]

\* a merge that leaves the rectangle as it is
MergeBoundsKept(into, next) == into

MergeBounds(into, next) ==
    [minX |-> Min(into.minX, next.minX), maxX |-> Max(into.maxX, next.maxX),
     minZ |-> Min(into.minZ, next.minZ), maxZ |-> Max(into.maxZ, next.maxZ)]

RECURSIVE MergeAll(_, _, _)
MergeAll(into, list, i) ==
    IF i > Len(list) THEN into ELSE MergeAll(MergeBounds(into, list[i]), list, i + 1)

BoundsOverlap2D(a, b) ==
    a.minX <= b.maxX /\ a.maxX >= b.minX /\ a.minZ <= b.maxZ /\ a.maxZ >= b.minZ

\* setRoomBounds: the margin is the literal 1.4 of the call
SetRoomBoundsValue(roomSize, nextBounds) == GetRoomBounds(roomSize, 1400, nextBounds)

-----------------------------------------------------------------------------
(* Scene loader: the collider registry *)

\* roomConfig.floorY || 0 and roomConfig.collisionWallThickness ?? 0.5 of
\* the scene configurations modelled here
FloorY == 0
WallThickness == 500

AddColliderRect(cs, centerX, centerZ, sizeX, sizeZ, minY, maxY, tag, id) ==
    IF sizeX <= 0 \/ sizeZ <= 0 THEN cs
    ELSE Append(cs, [id |-> id, tag |-> tag,
                     minX |-> centerX - Half(sizeX), maxX |-> centerX + Half(sizeX),
                     minZ |-> centerZ - Half(sizeZ), maxZ |-> centerZ + Half(sizeZ),
                     minY |-> minY, maxY |-> maxY])

\* Array.prototype.splice(i, 1), on 1-based sequences
SpliceOne(list, i) == SubSeq(list, 1, i - 1) \o SubSeq(list, i + 1, Len(list))

\* a removal loop that walks forward and steps over the element that moved
\* into the freed index
RECURSIVE SpliceForward(_, _, _)
SpliceForward(cs, tag, i) ==
    IF i > Len(cs) THEN cs
    ELSE SpliceForward(IF cs[i].tag = tag THEN SpliceOne(cs, i) ELSE cs, tag, i + 1)

RECURSIVE SpliceBackward(_, _, _)
SpliceBackward(cs, tag, i) ==
    IF i < 1 THEN cs
    ELSE SpliceBackward(IF cs[i].tag = tag THEN SpliceOne(cs, i) ELSE cs, tag, i - 1)

RemoveCollidersByTagForward(cs, tag) == SpliceForward(cs, tag, 1)

RemoveCollidersByTag(cs, tag) == SpliceBackward(cs, tag, Len(cs))

\* the record loops of removeFloorplanByTag and removePropsByTag
RemoveRecordsByTag(records, tag) == SpliceBackward(records, tag, Len(records))

-----------------------------------------------------------------------------
(* Scene loader: protected zones and annexes *)

FrontDoorWidth(cfg) ==
    Clamp(Nullish(cfg.frontEntrance.width, 4200), 1600, Max(1600, cfg.size[1] - 1600))

FrontDoorHeight(cfg) ==
    Clamp(Nullish(cfg.frontEntrance.height, 3400), 2200, Max(2200, cfg.size[2] - 400))

FrontDoorCenterX(cfg) ==
    Clamp(Nullish(cfg.frontEntrance.centerX, 0),
          -Half(cfg.size[1]) + Half(FrontDoorWidth(cfg)) + 400,
          Half(cfg.size[1]) - Half(FrontDoorWidth(cfg)) - 400)

DoorwayWidth(cfg) ==
    Clamp(Nullish(cfg.sideDoorways.width, 3800), 1500, Max(1500, cfg.size[3] - 1000))

DoorwayHeight(cfg) ==
    Clamp(Nullish(cfg.sideDoorways.height, 3200), 2000, Max(2000, cfg.size[2] - 600))

ValidZone(zone) == zone.minX < zone.maxX /\ zone.minZ < zone.maxZ

\* the zones of sceneConfig.zones that are boxes with a protected name
RECURSIVE SceneZones(_, _)
SceneZones(zones, i) ==
    IF i > Len(zones) THEN <<>>
    ELSE LET zone == zones[i]
             rest == SceneZones(zones, i + 1)
         IN  IF ~zone.box \/ ~zone.protectedName \/ zone.sx = 0 \/ zone.sz = 0
             THEN rest
             ELSE <<[id |-> <<"zone", zone.id>>,
                     minX |-> zone.px - Half(zone.sx), maxX |-> zone.px + Half(zone.sx),
                     minZ |-> zone.pz - Half(zone.sz), maxZ |-> zone.pz + Half(zone.sz)]>>
                  \o rest

CreateProtectedFloorplanZones(cfg) ==
    LET width == OrElse(cfg.size[1], 30000)
        depth == OrElse(cfg.size[3], 30000)
        centerZ == Nullish(cfg.sideDoorways.centerZ, 0)
        zHalf == Half(DoorwayWidth(cfg)) + 1150
        outwardDepth == Max(3500, 6500)
        side == IF cfg.sideDoorways.enabled
                THEN << [id |-> <<"east-doorway-clearance">>,
                         minX |-> Half(width) - 800, maxX |-> Half(width) + outwardDepth,
                         minZ |-> centerZ - zHalf, maxZ |-> centerZ + zHalf],
                        [id |-> <<"west-doorway-clearance">>,
                         minX |-> -Half(width) - outwardDepth, maxX |-> -Half(width) + 800,
                         minZ |-> centerZ - zHalf, maxZ |-> centerZ + zHalf] >>
                ELSE <<>>
        pathHalfWidth == Max(Half(FrontDoorWidth(cfg)) + 1200, 3300)
        pathStartZ == Half(depth) - 800
        pathDepth == Max(12000, 24000)
        front == IF cfg.frontEntrance.enabled
                 THEN << [id |-> <<"front-courtyard-path-clearance">>,
                          minX |-> FrontDoorCenterX(cfg) - pathHalfWidth,
                          maxX |-> FrontDoorCenterX(cfg) + pathHalfWidth,
                          minZ |-> pathStartZ, maxZ |-> pathStartZ + pathDepth] >>
                 ELSE <<>>
    IN  SelectSeq(side \o front \o SceneZones(cfg.zones, 1), ValidZone)

WallNeverBlocked(bounds, zones) == FALSE

WallBlockedByProtectedZone(bounds, zones) ==
    \E i \in 1..Len(zones) : BoundsOverlap2D(bounds, zones[i])

AnnexWidth(annex) == Max(2200, OrElse(annex.size[1], 8000))
AnnexHeight(annex) == Max(2200, OrElse(annex.size[2], 6000))
AnnexDepth(annex) == Max(2200, OrElse(annex.size[3], 8000))

NavigationInset(annex) ==
    Clamp(Nullish(annex.navigationInset, 1050), 350,
          Max(350, (Min(AnnexWidth(annex), AnnexDepth(annex)) * 45) \div 100))

\* the rectangle addWall tests against the protected zones
AnnexWallBounds(annex, side) ==
    LET cx == annex.position[1]
        cz == annex.position[3]
        hw == Half(AnnexWidth(annex))
        hd == Half(AnnexDepth(annex))
        ht == Half(WallThickness)
    IN  CASE side = "north" -> [minX |-> cx - hw, maxX |-> cx + hw,
                                minZ |-> cz - hd - ht, maxZ |-> cz - hd + ht]
          [] side = "south" -> [minX |-> cx - hw, maxX |-> cx + hw,
                                minZ |-> cz + hd - ht, maxZ |-> cz + hd + ht]
          [] side = "east"  -> [minX |-> cx + hw - ht, maxX |-> cx + hw + ht,
                                minZ |-> cz - hd, maxZ |-> cz + hd]
          [] OTHER          -> [minX |-> cx - hw - ht, maxX |-> cx - hw + ht,
                                minZ |-> cz - hd, maxZ |-> cz + hd]

\* addWall(side) inside createAnnex: the registry after the call
AddWall(cs, annex, side, tag, zones) ==
    LET cx == annex.position[1]
        cz == annex.position[3]
        baseY == FloorY + annex.position[2]
        hw == Half(AnnexWidth(annex))
        hd == Half(AnnexDepth(annex))
        minY == baseY + 20
        maxY == baseY + AnnexHeight(annex) - 40
        id == <<annex.id, side>>
    IN  IF side = annex.openSide THEN cs
        ELSE IF WallBlockedByProtectedZone(AnnexWallBounds(annex, side), zones) THEN cs
        ELSE CASE side = "north" ->
                    AddColliderRect(cs, cx, cz - hd, AnnexWidth(annex), WallThickness,
                                    minY, maxY, tag, id)
               [] side = "south" ->
                    AddColliderRect(cs, cx, cz + hd, AnnexWidth(annex), WallThickness,
                                    minY, maxY, tag, id)
               [] side = "east" ->
                    AddColliderRect(cs, cx + hw, cz, WallThickness, AnnexDepth(annex),
                                    minY, maxY, tag, id)
               [] OTHER ->
                    AddColliderRect(cs, cx - hw, cz, WallThickness, AnnexDepth(annex),
                                    minY, maxY, tag, id)

\* createAnnex: st = [colliders, records, bounds] before, the same after
CreateAnnex(st, annex, tag, zones) ==
    LET cx == annex.position[1]
        cz == annex.position[3]
        hw == Half(AnnexWidth(annex))
        hd == Half(AnnexDepth(annex))
        inset == NavigationInset(annex)
        walls == AddWall(AddWall(AddWall(AddWall(st.colliders,
                    annex, "north", tag, zones),
                    annex, "south", tag, zones),
                    annex, "east", tag, zones),
                    annex, "west", tag, zones)
        annexBounds == [minX |-> cx - hw + inset, maxX |-> cx + hw - inset,
                        minZ |-> cz - hd + inset, maxZ |-> cz + hd - inset]
    IN  [colliders |-> walls,
         records |-> Append(st.records, [name |-> annex.id, tag |-> tag]),
         bounds |-> IF annexBounds.minX < annexBounds.maxX
                       /\ annexBounds.minZ < annexBounds.maxZ
                    THEN Append(st.bounds, annexBounds)
                    ELSE st.bounds]

RECURSIVE BuildFloorplanAnnexes(_, _, _, _, _)
BuildFloorplanAnnexes(st, annexes, tag, zones, i) ==
    IF i > Len(annexes) THEN st
    ELSE BuildFloorplanAnnexes(
            IF annexes[i].enabled THEN CreateAnnex(st, annexes[i], tag, zones) ELSE st,
            annexes, tag, zones, i + 1)

\* an applyFloorplanBounds that unions the annex rectangles in every case
ApplyFloorplanBoundsMerged(cfg, themeFloorplan, baseBounds, themeBounds) ==
    SetRoomBoundsValue(cfg.size,
        AsOverride(MergeAll(MergeAll(GetRoomBounds(cfg.size, 1400, cfg.navigationBounds),
                                     baseBounds, 1), themeBounds, 1)))

\* applyFloorplanBounds: the new roomBounds.  A theme floorplan is a record
\* [given, annexes, profileBounds, navigationBounds, extendNavigation];
\* given = FALSE is null.
ApplyFloorplanBounds(cfg, themeFloorplan, baseBounds, themeBounds) ==
    LET explicitBounds ==
            IF ~themeFloorplan.given THEN NoBounds
            ELSE IF themeFloorplan.profileBounds.given THEN themeFloorplan.profileBounds
            ELSE themeFloorplan.navigationBounds
        baseRoomBounds == GetRoomBounds(cfg.size, 1400, cfg.navigationBounds)
        withBase == MergeAll(baseRoomBounds, baseBounds, 1)
        merged == IF themeFloorplan.given /\ ~themeFloorplan.extendNavigation
                  THEN withBase
                  ELSE MergeAll(withBase, themeBounds, 1)
    IN  IF explicitBounds.given
        THEN SetRoomBoundsValue(cfg.size, explicitBounds)
        ELSE SetRoomBoundsValue(cfg.size, AsOverride(merged))

-----------------------------------------------------------------------------
(* Scene loader: the walls of the main room (loadScene) *)

RoomId(name) == <<"room", name>>

NorthWall(cs, cfg) ==
    AddColliderRect(cs, 0, -Half(cfg.size[3]), cfg.size[1], WallThickness,
                    FloorY + 20, FloorY + cfg.size[2] - 40, "room", RoomId("north_wall"))

LeftWidth(cfg) ==
    Max(200, FrontDoorCenterX(cfg) - Half(FrontDoorWidth(cfg)) - (-Half(cfg.size[1])))

RightWidth(cfg) ==
    Max(200, Half(cfg.size[1]) - (FrontDoorCenterX(cfg) + Half(FrontDoorWidth(cfg))))

FrontWall(cs, cfg) ==
    LET width == cfg.size[1]
        depth == cfg.size[3]
    IN  IF ~cfg.frontEntrance.enabled
        THEN AddColliderRect(cs, 0, Half(depth), width, WallThickness,
                             FloorY + 20, FloorY + cfg.size[2] - 40,
                             "room", RoomId("south_wall"))
        ELSE AddColliderRect(
                AddColliderRect(cs, -Half(width) + Half(LeftWidth(cfg)), Half(depth),
                                LeftWidth(cfg), WallThickness,
                                FloorY + 20, FloorY + FrontDoorHeight(cfg) - 20,
                                "room", RoomId("south_wall_left")),
                FrontDoorCenterX(cfg) + Half(FrontDoorWidth(cfg)) + Half(RightWidth(cfg)),
                Half(depth), RightWidth(cfg), WallThickness,
                FloorY + 20, FloorY + FrontDoorHeight(cfg) - 20,
                "room", RoomId("south_wall_right"))

AddSideWallWithDoor(cs, cfg, side) ==
    LET width == cfg.size[1]
        depth == cfg.size[3]
        x == IF side = "east" THEN Half(width) ELSE -Half(width)
        doorCenterZ == Nullish(cfg.sideDoorways.centerZ, 0)
        segmentWidth == Half(depth - DoorwayWidth(cfg))
    IN  IF ~cfg.sideDoorways.enabled
        THEN AddColliderRect(cs, x, 0, WallThickness, depth,
                             FloorY + 20, FloorY + cfg.size[2] - 40,
                             "room", <<side, "wall">>)
        ELSE IF segmentWidth > 100
        THEN AddColliderRect(
                AddColliderRect(cs, x,
                                doorCenterZ + Half(DoorwayWidth(cfg)) + Half(segmentWidth),
                                WallThickness, segmentWidth,
                                FloorY + 20, FloorY + DoorwayHeight(cfg) - 20,
                                "room", <<side, "wall_front">>),
                x, doorCenterZ - Half(DoorwayWidth(cfg)) - Half(segmentWidth),
                WallThickness, segmentWidth,
                FloorY + 20, FloorY + DoorwayHeight(cfg) - 20,
                "room", <<side, "wall_back">>)
        ELSE cs

RoomWalls(cfg) ==
    AddSideWallWithDoor(AddSideWallWithDoor(FrontWall(NorthWall(<<>>, cfg), cfg),
                                            cfg, "east"), cfg, "west")

NoFloorplan == [given |-> FALSE, annexes |-> <<>>, profileBounds |-> NoBounds,
                navigationBounds |-> NoBounds, extendNavigation |-> TRUE]

\* loadScene: the registry, annex records and bounds it leaves behind
LoadScene(cfg) ==
    LET zones == CreateProtectedFloorplanZones(cfg)
        built == BuildFloorplanAnnexes(
                    [colliders |-> RoomWalls(cfg), records |-> <<>>, bounds |-> <<>>],
                    cfg.annexes, "floorplan-base", zones, 1)
    IN  [colliders |-> built.colliders,
         floorplanRecords |-> built.records,
         baseFloorplanBounds |-> built.bounds,
         roomBounds |-> ApplyFloorplanBounds(cfg, NoFloorplan, built.bounds, <<>>)]

-----------------------------------------------------------------------------
(* Scene loader: props *)

\* registerPropCollider for a prop with an explicit collider box; center is
\* the wrapper position plus the collider offset
RegisterPropCollider(cs, prop, tag) ==
    IF ~prop.collider THEN cs
    ELSE LET ySize == OrElse(prop.size[2], 2000)
         IN  AddColliderRect(cs, prop.position[1], prop.position[3],
                             OrElse(prop.size[1], 500), OrElse(prop.size[3], 500),
                             prop.position[2] - Half(ySize), prop.position[2] + Half(ySize),
                             tag, <<"prop", prop.id>>)

-----------------------------------------------------------------------------
(* Scene configurations *)

MaxProps == 1

NoEntrance == [enabled |-> FALSE, width |-> Absent, height |-> Absent, centerX |-> Absent]
FrontEntrances ==
    { NoEntrance,
      [enabled |-> TRUE, width |-> 4000, height |-> Absent, centerX |-> 0],
      [enabled |-> TRUE, width |-> Absent, height |-> 3000, centerX |-> 9000] }

DefaultDoorways == [enabled |-> TRUE, width |-> Absent, height |-> Absent, centerZ |-> Absent]
SideDoorwaySet ==
    { DefaultDoorways,
      [enabled |-> FALSE, width |-> Absent, height |-> Absent, centerZ |-> Absent],
      [enabled |-> TRUE, width |-> 3000, height |-> Absent, centerZ |-> 1000] }

RoomSizes == { <<10000, 4000, 10000>>, <<30000, 8000, 30000>>, <<2000, 4000, 2000>> }

WideBounds == [given |-> TRUE, finite |-> TRUE,
               minX |-> -6000, maxX |-> 6000, minZ |-> -4000, maxZ |-> 8000]
InvertedBounds == [given |-> TRUE, finite |-> TRUE,
                   minX |-> 3000, maxX |-> -3000, minZ |-> -4000, maxZ |-> 4000]
NonFiniteBounds == [given |-> TRUE, finite |-> FALSE,
                    minX |-> 0, maxX |-> 0, minZ |-> -4000, maxZ |-> 4000]
BoundsOverrides == { NoBounds, WideBounds, InvertedBounds, NonFiniteBounds }

EastAnnex == [id |-> "east-wing", enabled |-> TRUE, size |-> <<8000, 4000, 6000>>,
              position |-> <<9000, 0, 0>>, openSide |-> "west", navigationInset |-> Absent]
FrontAnnex == [id |-> "front-hall", enabled |-> TRUE, size |-> <<6000, 4000, 6000>>,
               position |-> <<0, 0, 8000>>, openSide |-> "north", navigationInset |-> 400]
TinyAnnex == [id |-> "closet", enabled |-> TRUE, size |-> <<1000, 0, 2000>>,
              position |-> <<-20000, 0, -20000>>, openSide |-> "", navigationInset |-> 2000]
HiddenAnnex == [EastAnnex EXCEPT !.id = "hidden", !.enabled = FALSE]
CornerAnnex == [id |-> "corner-room", enabled |-> TRUE, size |-> <<4000, 4000, 6000>>,
                position |-> <<13000, 0, 5500>>, openSide |-> "west",
                navigationInset |-> Absent]
BaseAnnexLists == { <<>>, <<FrontAnnex, HiddenAnnex>> }

CourtyardZone == [id |-> "courtyard", box |-> TRUE, protectedName |-> TRUE,
                  sx |-> 4000, sz |-> 4000, px |-> 13000, pz |-> 0]
ZoneLists == { <<>>, <<CourtyardZone>> }

CentredEntrance == [enabled |-> TRUE, width |-> 4000, height |-> Absent, centerX |-> 0]

PlainRoom == [size |-> <<10000, 4000, 10000>>, navigationBounds |-> NoBounds,
              frontEntrance |-> CentredEntrance, sideDoorways |-> DefaultDoorways,
              annexes |-> <<>>, zones |-> <<>>]

\* every room size with every front entrance, and the plain room with each
\* other option varied
SceneConfigs ==
    { [PlainRoom EXCEPT !.size = size, !.frontEntrance = entrance] :
        size \in RoomSizes, entrance \in FrontEntrances }
    \cup { [PlainRoom EXCEPT !.sideDoorways = doorways] : doorways \in SideDoorwaySet }
    \cup { [PlainRoom EXCEPT !.navigationBounds = b, !.size = size] :
            b \in {WideBounds, InvertedBounds}, size \in RoomSizes }
    \cup { [PlainRoom EXCEPT !.annexes = annexes, !.zones = zones] :
            annexes \in BaseAnnexLists, zones \in ZoneLists }

\* the scenes the floorplan operations are run on: the above, and a room
\* with an annex beside a protected zone
FloorplanConfigs ==
    SceneConfigs
    \cup { [PlainRoom EXCEPT !.annexes = <<CornerAnnex>>, !.zones = zones] :
            zones \in ZoneLists }

\* themes' floorplan blocks
WingAndCloset ==
    [given |-> TRUE, annexes |-> <<EastAnnex, TinyAnnex>>, profileBounds |-> NoBounds,
     navigationBounds |-> NoBounds, extendNavigation |-> TRUE]
ThemeFloorplans ==
    { WingAndCloset,
      [given |-> TRUE, annexes |-> <<EastAnnex>>, profileBounds |-> NoBounds,
       navigationBounds |-> NoBounds, extendNavigation |-> FALSE],
      [given |-> TRUE, annexes |-> <<EastAnnex>>, profileBounds |-> WideBounds,
       navigationBounds |-> InvertedBounds, extendNavigation |-> TRUE],
      [given |-> TRUE, annexes |-> <<TinyAnnex>>, profileBounds |-> NoBounds,
       navigationBounds |-> InvertedBounds, extendNavigation |-> TRUE] }

Crate == [id |-> "crate", collider |-> TRUE, size |-> <<400, 2000, 400>>,
          position |-> <<1600, 1000, 0>>]
Banner == [id |-> "banner", collider |-> FALSE, size |-> <<0, 0, 0>>,
           position |-> <<0, 2000, -4000>>]
PropPool == { Crate, Banner }
PropTags == { "theme-extra", "base" }
RemovalTags == { "theme-extra", "floorplan-theme", "room" }

NoHist == [kind |-> "none", tag |-> "", streak |-> 0, removed |-> 0, after |-> <<>>]

-----------------------------------------------------------------------------
(* The scene after loadScene and the operations of its sceneContext *)

Origin == [x |-> 0, z |-> 0]
NoCall == [called |-> FALSE, pos |-> Origin, radius |-> 0, sampleY |-> 0,
           out |-> Origin, hits |-> 0]

SceneLoaded(configs) ==
    /\ sceneCfg \in configs
    /\ LET loaded == LoadScene(sceneCfg)
       IN  /\ colliders = loaded.colliders
           /\ floorplanRecords = loaded.floorplanRecords
           /\ baseFloorplanBounds = loaded.baseFloorplanBounds
           /\ roomBounds = loaded.roomBounds
    /\ themeFloorplanBounds = <<>>
    /\ activeFloorplan = NoFloorplan
    /\ propRecords = <<>>
    /\ regHist = NoHist
    /\ playerPos = Origin
    /\ lastHits = 0
    /\ res = NoCall

InitScene == SceneLoaded(SceneConfigs)

\* the history of consecutive removals: kind/tag of the streak, its length
\* (2 stands for two or more) and the registry its first removal left
NextHist(kind, tag, registry) ==
    IF regHist.kind = kind /\ regHist.tag = tag
    THEN [regHist EXCEPT !.streak = 2]
    ELSE [kind |-> kind, tag |-> tag, streak |-> 1,
          removed |-> Len(colliders) - Len(registry[1]), after |-> registry]

\* an applyThemeFloorplan that patches the theme annexes onto what is there
ThemeFloorplanPatched(themeFloorplan) ==
    LET kept == [colliders |-> colliders, records |-> floorplanRecords,
                 bounds |-> themeFloorplanBounds]
    IN  IF themeFloorplan.given
        THEN BuildFloorplanAnnexes(kept, themeFloorplan.annexes, "floorplan-theme",
                                   CreateProtectedFloorplanZones(sceneCfg), 1)
        ELSE kept

\* applyThemeFloorplan(themeFloorplan): st = [colliders, records, bounds]
ThemeFloorplanBuilt(themeFloorplan) ==
    LET cleared == [colliders |-> RemoveCollidersByTag(colliders, "floorplan-theme"),
                    records |-> RemoveRecordsByTag(floorplanRecords, "floorplan-theme"),
                    bounds |-> <<>>]
    IN  IF themeFloorplan.given
        THEN BuildFloorplanAnnexes(cleared, themeFloorplan.annexes, "floorplan-theme",
                                   CreateProtectedFloorplanZones(sceneCfg), 1)
        ELSE cleared

ApplyThemeFloorplan(themeFloorplan) ==
    LET built == ThemeFloorplanBuilt(themeFloorplan)
    IN  /\ colliders' = built.colliders
        /\ floorplanRecords' = built.records
        /\ themeFloorplanBounds' = built.bounds
        /\ activeFloorplan' = themeFloorplan
        /\ roomBounds' = ApplyFloorplanBounds(sceneCfg, themeFloorplan,
                                              baseFloorplanBounds, built.bounds)
        /\ regHist' = NoHist
        /\ UNCHANGED <<sceneCfg, baseFloorplanBounds, propRecords, moveVars, catalogVars, themeVars>>

ResetThemeFloorplan ==
    LET built == ThemeFloorplanBuilt(NoFloorplan)
    IN  /\ colliders' = built.colliders
        /\ floorplanRecords' = built.records
        /\ themeFloorplanBounds' = built.bounds
        /\ activeFloorplan' = NoFloorplan
        /\ roomBounds' = ApplyFloorplanBounds(sceneCfg, NoFloorplan,
                                              baseFloorplanBounds, built.bounds)
        /\ regHist' = NextHist("floorplan", "floorplan-theme",
                               <<built.colliders, propRecords, built.records>>)
        /\ UNCHANGED <<sceneCfg, baseFloorplanBounds, propRecords, moveVars, catalogVars, themeVars>>

SetRoomBounds(nextBounds) ==
    /\ roomBounds' = SetRoomBoundsValue(sceneCfg.size, nextBounds)
    /\ regHist' = NoHist
    /\ UNCHANGED <<colliders, sceneCfg, baseFloorplanBounds, themeFloorplanBounds, activeFloorplan,
                   floorplanRecords, propRecords, moveVars, catalogVars, themeVars>>

\* addProps([prop], {tag}) run to completion for a primitive prop
AddProp(prop, tag) ==
    /\ Len(propRecords) < MaxProps
    /\ propRecords' = Append(propRecords, [id |-> prop.id, tag |-> tag])
    /\ colliders' = RegisterPropCollider(colliders, prop, tag)
    /\ regHist' = NoHist
    /\ UNCHANGED <<roomBounds, sceneCfg, baseFloorplanBounds, themeFloorplanBounds, activeFloorplan,
                   floorplanRecords, moveVars, catalogVars, themeVars>>

RemovePropsByTag(tag) ==
    LET cs == RemoveCollidersByTag(colliders, tag)
        props == RemoveRecordsByTag(propRecords, tag)
    IN  /\ colliders' = cs
        /\ propRecords' = props
        /\ regHist' = NextHist("props", tag, <<cs, props, floorplanRecords>>)
        /\ UNCHANGED <<roomBounds, sceneCfg, baseFloorplanBounds, themeFloorplanBounds, activeFloorplan,
                       floorplanRecords, moveVars, catalogVars, themeVars>>

NextScene ==
    \/ ApplyThemeFloorplan(WingAndCloset)
    \/ ResetThemeFloorplan
    \/ \E b \in BoundsOverrides : SetRoomBounds(b)
    \/ \E prop \in PropPool, tag \in PropTags : AddProp(prop, tag)
    \/ \E tag \in RemovalTags : RemovePropsByTag(tag)

-----------------------------------------------------------------------------
(* The collision resolver called directly *)

MaxColliders == 2

Block == [id |-> <<"pool", "block">>, tag |-> "room",
          minX |-> -500, maxX |-> 500, minZ |-> -500, maxZ |-> 500,
          minY |-> 0, maxY |-> 3000]
Overlap == [id |-> <<"pool", "overlap">>, tag |-> "room",
            minX |-> 0, maxX |-> 1000, minZ |-> 0, maxZ |-> 1000,
            minY |-> 0, maxY |-> 3000]
Shelf == [id |-> <<"pool", "shelf">>, tag |-> "base",
          minX |-> -1500, maxX |-> -500, minZ |-> -1500, maxZ |-> -500,
          minY |-> 1500, maxY |-> 3000]
Switched == [id |-> <<"pool", "off">>, tag |-> "base",
             minX |-> 1000, maxX |-> 2000, minZ |-> -500, maxZ |-> 500,
             minY |-> 0, maxY |-> 3000, enabled |-> FALSE]
\* a collider whose grown rectangle shares a narrow strip with Block's
Sliver == [id |-> <<"pool", "sliver">>, tag |-> "room",
           minX |-> 1380, maxX |-> 2380, minZ |-> -500, maxZ |-> 500,
           minY |-> 0, maxY |-> 3000]
ColliderPool == { Block, Overlap, Shelf, Switched, Sliver }

ColliderLists == UNION { [1..n -> ColliderPool] : n \in 0..MaxColliders }

Coordinates == { -2000, -1500, -1000, -920, -500, 0, 500, 920, 1000, 1500, 2000 }
Positions == [x : Coordinates, z : Coordinates]
Radii == { 0, 420, 500 }
SampleHeights == { 800, 2000 }

\* the arguments of a resolver call that has not run yet
PendingCalls ==
    { [called |-> FALSE, pos |-> position, radius |-> radius, sampleY |-> sampleY,
       out |-> position, hits |-> 0, settled |-> FALSE] :
      position \in Positions, radius \in Radii, sampleY \in SampleHeights }

InitResolver ==
    /\ colliders \in ColliderLists
    /\ res \in PendingCalls
    /\ sceneCfg = PlainRoom
    /\ roomBounds = GetRoomBounds(PlainRoom.size, 1400, NoBounds)
    /\ baseFloorplanBounds = <<>>
    /\ themeFloorplanBounds = <<>>
    /\ activeFloorplan = NoFloorplan
    /\ floorplanRecords = <<>>
    /\ propRecords = <<>>
    /\ regHist = NoHist
    /\ playerPos = Origin
    /\ lastHits = 0

\* resolvePositionAgainstColliders({position, colliders, radius, sampleY}) runs;
\* `settled` is history: the loop ended with a pass that corrected nothing
ResolvePosition ==
    LET result == ResolvePositionAgainstColliders(res.pos, colliders, res.radius,
                                                 res.sampleY)
    IN  /\ ~res.called
        /\ res' = [res EXCEPT !.called = TRUE, !.out = result.pos, !.hits = result.hits,
                               !.settled = ~result.hit]
        /\ UNCHANGED <<playerPos, lastHits, sceneVars, catalogVars, themeVars>>

NextResolver == ResolvePosition

-----------------------------------------------------------------------------
(* The movement controllers *)

\* collisionRadius and player.position.y - collisionSampleHeightOffset
CollisionRadius == 420
SampleY == 800

\* a square room whose default bounds are 2 units each way, closed walls
MoveRoom == [PlainRoom EXCEPT !.size = <<6800, 4000, 6800>>,
                              !.frontEntrance = NoEntrance,
                              !.sideDoorways.enabled = FALSE]

\* per-frame displacements moveVector * speed * deltaTime
Displacements == { d \in [x : {-500, 0, 500}, z : {-500, 0, 500}] : d # Origin }

\* speed * deltaTime of the tap-to-move controller
MobileStep == 500
MoveTargets == [x : {-2000, 0, 2000}, z : {-2000, 0, 2000}]

ClampToBounds(position, bounds) ==
    [x |-> Clamp(position.x, bounds.minX, bounds.maxX),
     z |-> Clamp(position.z, bounds.minZ, bounds.maxZ)]

InitMove ==
    /\ sceneCfg = MoveRoom
    /\ LET loaded == LoadScene(MoveRoom)
       IN  /\ \E props \in SUBSET {Crate} :
                /\ colliders = IF props = {} THEN loaded.colliders
                               ELSE RegisterPropCollider(loaded.colliders, Crate, "base")
                /\ propRecords = IF props = {} THEN <<>>
                                 ELSE <<[id |-> Crate.id, tag |-> "base"]>>
           /\ floorplanRecords = loaded.floorplanRecords
           /\ baseFloorplanBounds = loaded.baseFloorplanBounds
           /\ roomBounds = loaded.roomBounds
    /\ themeFloorplanBounds = <<>>
    /\ activeFloorplan = NoFloorplan
    /\ regHist = NoHist
    /\ playerPos = Origin
    /\ lastHits = 0
    /\ res = NoCall

\* the tail shared by the controllers: clamp to the bounds, then resolve
ClampThenResolve(moved) ==
    LET clamped == ClampToBounds(moved, roomBounds)
        result == ResolvePositionAgainstColliders(clamped, colliders,
                                                  CollisionRadius, SampleY)
    IN  /\ playerPos' = result.pos
        /\ lastHits' = result.hits
        /\ UNCHANGED <<res, sceneVars, catalogVars, themeVars>>

\* DesktopControls.update and the first-person controller of main.js
DesktopUpdate(d) ==
    ClampThenResolve([x |-> playerPos.x + d.x, z |-> playerPos.z + d.z])

\* MobileControls.update towards a target on the player's row or column
MobileUpdate(target) ==
    LET dx == target.x - playerPos.x
        dz == target.z - playerPos.z
        distance == Abs(dx) + Abs(dz)
        step == Min(distance, MobileStep)
    IN  /\ dx = 0 \/ dz = 0
        /\ distance > 120
        /\ ClampThenResolve(
              [x |-> playerPos.x + (IF dx > 0 THEN step ELSE IF dx < 0 THEN -step ELSE 0),
               z |-> playerPos.z + (IF dz > 0 THEN step ELSE IF dz < 0 THEN -step ELSE 0)])

NextMove ==
    \/ \E d \in Displacements : DesktopUpdate(d)
    \/ \E target \in MoveTargets : MobileUpdate(target)

-----------------------------------------------------------------------------
(* Catalog rooms: filtering and wall slots (catalogRoomSystem.js) *)

\* a slice that keeps the whole list
TakeAll(list, n) == list

\* Array.prototype.slice(0, n)
Take(list, n) == SubSeq(list, 1, Min(n, Len(list)))

\* String(tag).toLowerCase() on the tags used here
LowerCaseOf == [tag \in { "Gift", "SMALL", "Small", "WEB" } |->
                   CASE tag = "Gift" -> "gift"
                     [] tag = "WEB" -> "web"
                     [] OTHER -> "small"]
ToLowerCase(tag) == IF tag \in DOMAIN LowerCaseOf THEN LowerCaseOf[tag] ELSE tag

\* filterItems(items, filter, maxItems); a filter is [itemIds, tagsAny], two
\* sets, and a maxItems that is not a finite positive number gives 6
FilterItems(items, filter, maxItems) ==
    LET byId(item) == item.id \in filter.itemIds
        tags == { ToLowerCase(tag) : tag \in filter.tagsAny }
        byTag(item) == \E tag \in item.tags : ToLowerCase(tag) \in tags
        selected == IF filter.itemIds # {} THEN SelectSeq(items, byId)
                    ELSE IF filter.tagsAny # {} THEN SelectSeq(items, byTag)
                    ELSE items
        limit == IF maxItems # Absent /\ maxItems > 0 THEN maxItems ELSE 6
    IN  IF Len(items) = 0 THEN <<>>
        ELSE Take(IF Len(selected) = 0 THEN items ELSE selected, limit)

\* buildLine(length) inside computeWallSlots: the slot offsets along a wall
BuildLine(config, length) ==
    LET cardWidth == OrElse(config.cardWidth, 1450)
        horizontalGap == Nullish(config.horizontalGap, 420)
        wallMargin == Nullish(config.wallMargin, 700)
        usable == Max(0, length - wallMargin * 2)
        stride == cardWidth + horizontalGap
        count == Max(0, (usable + horizontalGap) \div stride)
        start == -(((count - 1) * stride) \div 2)
    IN  [i \in 1..count |-> start + (i - 1) * stride]

\* computeWallSlots for a node whose config.size is `size` (<<>> if absent)
ComputeWallSlots(config, size) ==
    LET dims == IF size = <<>> THEN <<8600, 4600, 9600>> ELSE size
        line(wall, length) ==
            LET offsets == BuildLine(config, length)
            IN  [i \in 1..Len(offsets) |-> [wall |-> wall, offset |-> offsets[i]]]
    IN  line("back", dims[1]) \o line("outer", dims[3]) \o line("front", dims[1])

\* computeRoomCapacity: the slots of a temporary node holding the raw config
ComputeRoomCapacity(config) == Len(ComputeWallSlots(config, config.size))

\* the size createRoomShell stores in the node it creates
ShellSize(config) == IF config.size = <<>> THEN <<8000, 4600, 9600>> ELSE config.size

\* the slots of a room that createRoomShell built
NodeSlots(config) == ComputeWallSlots(config, ShellSize(config))

-----------------------------------------------------------------------------
(* Catalog rooms: shells, colliders and reconciliation *)

\* addCollider; `app` is history: the applyTheme call that ran it
AddCollider(cs, roomId, roomIndex, centerX, centerZ, sizeX, sizeZ, minY, maxY, app) ==
    Append(cs, [roomId |-> roomId, roomIndex |-> roomIndex,
                minX |-> centerX - Half(sizeX), maxX |-> centerX + Half(sizeX),
                minZ |-> centerZ - Half(sizeZ), maxZ |-> centerZ + Half(sizeZ),
                minY |-> minY, maxY |-> maxY, app |-> app])

\* group.position of room roomIndex: origin + step * roomIndex
ShellPosition(config, roomIndex) ==
    LET depth == ShellSize(config)[3]
        step == IF config.step = <<>> THEN <<0, 0, -(depth + 2200)>> ELSE config.step
    IN  [i \in 1..3 |-> config.origin[i] + step[i] * roomIndex]

ConnectorDoorWidth(config) ==
    Clamp(Nullish(config.doorWidth, 2400), 1400, ShellSize(config)[1] - 1000)

ConnectorDoorHeight(config) ==
    Clamp(Nullish(config.doorHeight, 3000), 2000, ShellSize(config)[2] - 400)

\* addDepthWallColliders(zLocal, hasDoor) inside createRoomShell
AddDepthWallColliders(cs, roomId, config, roomIndex, zLocal, hasDoor, app) ==
    LET pos == ShellPosition(config, roomIndex)
        width == ShellSize(config)[1]
        minY == pos[2] + 20
        maxY == pos[2] + ConnectorDoorHeight(config)
        worldZ == pos[3] + zLocal
        segmentWidth == Max(180, Half(width - ConnectorDoorWidth(config)))
        leftCenter == -Half(ConnectorDoorWidth(config)) - Half(segmentWidth)
        rightCenter == Half(ConnectorDoorWidth(config)) + Half(segmentWidth)
    IN  IF ~hasDoor
        THEN AddCollider(cs, roomId, roomIndex, pos[1], worldZ, width, 420,
                         minY, maxY, app)
        ELSE AddCollider(
                AddCollider(cs, roomId, roomIndex, pos[1] + leftCenter, worldZ,
                            segmentWidth, 420, minY, maxY, app),
                roomId, roomIndex, pos[1] + rightCenter, worldZ,
                segmentWidth, 420, minY, maxY, app)

\* createRoomShell: the colliders it registers (the node is its index)
CreateRoomShell(cs, roomId, config, roomIndex, totalRooms, app) ==
    LET pos == ShellPosition(config, roomIndex)
        size == ShellSize(config)
        outerX == IF roomId = "shop" THEN -Half(size[1]) ELSE Half(size[1])
        outer == AddCollider(cs, roomId, roomIndex, pos[1] + outerX, pos[3],
                             420, size[3], pos[2] + 20, pos[2] + size[2] - 40, app)
        back == AddDepthWallColliders(outer, roomId, config, roomIndex,
                                      -Half(size[3]), roomIndex < totalRooms - 1, app)
    IN  AddDepthWallColliders(back, roomId, config, roomIndex,
                              Half(size[3]), roomIndex > 0, app)

RECURSIVE CreateShells(_, _, _, _, _, _)
CreateShells(cs, roomId, config, from, required, app) ==
    IF from >= required THEN cs
    ELSE CreateShells(CreateRoomShell(cs, roomId, config, from, required, app),
                      roomId, config, from + 1, required, app)

\* reconcileRoomCount: the collider list it leaves.  `current` is the number
\* of rooms the category has before the call.
ReconcileColliders(cs, roomId, config, current, required, app) ==
    LET others == SelectSeq(cs, LAMBDA entry : entry.roomId # roomId)
        refreshed == Min(current, required)
        grown == CreateShells(others, roomId, config, refreshed, required, app)
    IN  CreateShells(grown, roomId, config, 0, required, app)

\* reconcileRoomCount: the room indexes of the category afterwards
ReconcileNodes(required) == [i \in 1..required |-> i - 1]

-----------------------------------------------------------------------------
(* Catalog rooms: the token-guarded card pipeline *)

MaxApps == 2

RoomIds == { "shop", "projects" }

SourceItems(roomId) ==
    IF roomId = "shop" THEN catalogConfig.shopItems ELSE catalogConfig.projectItems

\* getThemeSpec(themeName)[roomId] || {}
RoomFilter(themeName, roomId) ==
    LET specs == catalogConfig.themeContent
    IN  IF themeName \in DOMAIN specs THEN specs[themeName][roomId]
        ELSE IF "default" \in DOMAIN specs THEN specs["default"][roomId]
        ELSE [itemIds |-> {}, tagsAny |-> {}]

\* the filtered items buildRoomCards works on
RoomItems(themeName, roomId) ==
    LET sourceItems == SourceItems(roomId)
        roomConfig == catalogConfig.rooms[roomId]
        maxItems == OrElse(OrElse(roomConfig.maxItems, Len(sourceItems)), 1)
    IN  FilterItems(sourceItems, RoomFilter(themeName, roomId), maxItems)

\* a room count of zero whatever the items
RequiredRoomsNone(themeName, roomId) == 0

\* the room count buildRoomCards asks reconcileRoomCount for
RequiredRooms(themeName, roomId) ==
    LET count == Len(RoomItems(themeName, roomId))
        capacity == ComputeRoomCapacity(catalogConfig.rooms[roomId])
        safeCapacity == Max(1, capacity)
    IN  IF count = 0 THEN 1
        ELSE Max(1, (count + safeCapacity - 1) \div safeCapacity)

\* slotPool of buildRoomCards: the wall slots of every room node in index
\* order, each with the node it belongs to
SlotPoolOf(slots, nodes) ==
    [k \in 1..(Len(nodes) * Len(slots)) |->
        [wall |-> slots[((k - 1) % Len(slots)) + 1].wall,
         offset |-> slots[((k - 1) % Len(slots)) + 1].offset,
         roomIndex |-> nodes[((k - 1) \div Len(slots)) + 1]]]

SlotPool(roomId, nodes) == SlotPoolOf(NodeSlots(catalogConfig.rooms[roomId]), nodes)

\* the card createCard builds for an item at a slot; `app` is history
CardAt(roomId, slot, item, app) ==
    [roomId |-> roomId, roomIndex |-> slot.roomIndex, wall |-> slot.wall,
     offset |-> slot.offset, id |-> <<roomId, item.id>>, app |-> app]

\* the length of slotPool for a chain of `rooms` rooms
SlotPoolSize(roomId, rooms) == Len(SlotPool(roomId, ReconcileNodes(rooms)))

\* a check that never fires
TokenIgnored(token, current) == FALSE

\* `token !== this.applyToken`
TokenAdvanced(token, current) == token # current

\* a cleanup that leaves the card group attached
CleanupSkipped(groups, card) == groups

\* cleanupCard inside createCard: the group leaves its room's cardsGroup.  A
\* room that was rebuilt since holds no group of an older call, so removing
\* by value is removing from the room the group was added to.
CleanupCard(groups, card) == SelectSeq(groups, LAMBDA g : g # card)

\* the item taken from the end of the feed instead
ItemFromEnd(items, index) == items[Len(items) - index]

\* items[index] in the loop of buildRoomCards
ItemAt(items, index) == items[index + 1]

\* One turn of the loop of buildRoomCards from its head, for call `app` at
\* item `index`, up to the next await: the lists afterwards and where the
\* call is suspended.  sh = [cardGroups, targets, dynamicCards].
LoopTurn(app, themeName, roomId, index, rooms, stale, sh) ==
    LET items == RoomItems(themeName, roomId)
        item == ItemAt(items, index)
        card == CardAt(roomId, SlotPool(roomId, ReconcileNodes(rooms))[index + 1],
                       item, app)
        stop == [sh EXCEPT !.pc = "built"]
    IN  IF index >= Len(items) THEN stop
        ELSE IF stale THEN stop
        ELSE IF index >= SlotPoolSize(roomId, rooms) THEN stop
        ELSE IF item.image
        THEN [sh EXCEPT !.cardGroups = Append(@, card), !.pc = "texture"]
        ELSE [sh EXCEPT !.cardGroups = Append(@, card),
                        !.targets = Append(@, card),
                        !.dynamicCards = Append(@, card),
                        !.pc = "card", !.created = TRUE]

\* a clearRoomCards that empties the lists of every category
OtherRoomsNone(list, roomId) == <<>>

OtherRooms(list, roomId) == SelectSeq(list, LAMBDA entry : entry.roomId # roomId)

\* buildRoomCards(roomId, themeSpec, token) up to its first await
BuildRoomCards(app, token, themeName, roomId) ==
    LET rooms == RequiredRooms(themeName, roomId)
        cleared == [cardGroups |-> OtherRooms(cardGroups, roomId),
                    targets |-> OtherRooms(targets, roomId),
                    dynamicCards |-> OtherRooms(dynamicCards, roomId),
                    pc |-> "built", created |-> FALSE]
        turn == LoopTurn(app, themeName, roomId, 0, rooms, TokenAdvanced(app, token), cleared)
    IN  /\ catColliders' = ReconcileColliders(catColliders, roomId,
                                              catalogConfig.rooms[roomId],
                                              Len(roomNodes[roomId]), rooms, app)
        /\ roomNodes' = [roomNodes EXCEPT ![roomId] = ReconcileNodes(rooms)]
        /\ lastBuilt' = [lastBuilt EXCEPT ![roomId] = themeName]
        /\ cardGroups' = turn.cardGroups
        /\ targets' = turn.targets
        /\ dynamicCards' = turn.dynamicCards
        /\ apps' = [apps EXCEPT ![app] = [pc |-> turn.pc, theme |-> themeName,
                                          room |-> roomId, index |-> 0,
                                          created |-> turn.created]]

\* applyTheme(themeName): takes the next token and runs to its first await
StartApply(themeName) ==
    /\ applyToken < MaxApps
    /\ applyToken' = applyToken + 1
    /\ BuildRoomCards(applyToken + 1, applyToken + 1, themeName, "shop")
    /\ UNCHANGED <<catalogConfig, moveVars, sceneVars, themeVars>>

\* createCard resumes after `await this.cache.loadTexture(item.image)`
ResumeTexture(app) ==
    LET me == apps[app]
        card == CardAt(me.room,
                       SlotPool(me.room,
                                ReconcileNodes(RequiredRooms(me.theme, me.room)))[me.index + 1],
                       ItemAt(RoomItems(me.theme, me.room), me.index), app)
    IN  /\ me.pc = "texture"
        /\ IF TokenAdvanced(app, applyToken)
           THEN /\ cardGroups' = CleanupCard(cardGroups, card)
                /\ apps' = [apps EXCEPT ![app].pc = "card", ![app].created = FALSE]
                /\ UNCHANGED <<targets, dynamicCards>>
           ELSE /\ targets' = Append(targets, card)
                /\ dynamicCards' = Append(dynamicCards, card)
                /\ apps' = [apps EXCEPT ![app].pc = "card", ![app].created = TRUE]
                /\ UNCHANGED cardGroups
        /\ UNCHANGED <<catalogConfig, applyToken, roomNodes, catColliders, lastBuilt,
                       moveVars, sceneVars, themeVars>>

\* buildRoomCards resumes after `await this.createCard(...)`
ResumeCard(app) ==
    LET me == apps[app]
        sh == [cardGroups |-> cardGroups, targets |-> targets,
               dynamicCards |-> dynamicCards, pc |-> "built", created |-> FALSE]
        turn == IF ~me.created /\ TokenAdvanced(app, applyToken) THEN sh
                ELSE LoopTurn(app, me.theme, me.room, me.index + 1,
                              Len(roomNodes[me.room]),
                              TokenAdvanced(app, applyToken), sh)
    IN  /\ me.pc = "card"
        /\ cardGroups' = turn.cardGroups
        /\ targets' = turn.targets
        /\ dynamicCards' = turn.dynamicCards
        /\ apps' = [apps EXCEPT ![app].pc = turn.pc, ![app].created = turn.created,
                                ![app].index = me.index + 1]
        /\ UNCHANGED <<catalogConfig, applyToken, roomNodes, catColliders, lastBuilt,
                       moveVars, sceneVars, themeVars>>

\* applyTheme resumes after `await this.buildRoomCards(...)`
ResumeBuilt(app) ==
    /\ apps[app].pc = "built"
    /\ IF apps[app].room = "shop" /\ ~TokenAdvanced(app, applyToken)
       THEN BuildRoomCards(app, applyToken, apps[app].theme, "projects")
       ELSE /\ apps' = [apps EXCEPT ![app].pc = "done"]
            /\ UNCHANGED <<roomNodes, cardGroups, targets, dynamicCards,
                           catColliders, lastBuilt>>
    /\ UNCHANGED <<catalogConfig, applyToken, moveVars, sceneVars, themeVars>>

-----------------------------------------------------------------------------
(* Catalog configurations *)

NoFilter == [itemIds |-> {}, tagsAny |-> {}]

\* a room with one slot (on its outer wall): 2.6 wide, 3 deep
NarrowRoom == [size |-> <<2600, 4600, 3000>>, cardWidth |-> Absent,
               horizontalGap |-> Absent, wallMargin |-> Absent, maxItems |-> Absent,
               origin |-> <<-20000, 0, 0>>, step |-> <<>>,
               doorWidth |-> Absent, doorHeight |-> Absent]
\* a room with three slots, one per wall
SquareRoom == [NarrowRoom EXCEPT !.size = <<3000, 4600, 3000>>,
                                 !.origin = <<20000, 0, 0>>]
\* a room too small for any card
CrampedRoom == [NarrowRoom EXCEPT !.size = <<2000, 4600, 2000>>]
\* a room with two slots, both on its outer wall
LongRoom == [NarrowRoom EXCEPT !.size = <<2600, 4600, 5000>>]
\* a one-slot room whose chain runs towards +z: expansion.step = [0, 0, 5.2]
ForwardRoom == [NarrowRoom EXCEPT !.step = <<0, 0, 5200>>]
\* a room configured without depth that shows one item: size = [2.6, 4.6, 0]
FlatRoom == [NarrowRoom EXCEPT !.size = <<2600, 4600, 0>>, !.maxItems = 1]
\* a room without a configured size and with wide wall margins
UnsizedRoom == [NarrowRoom EXCEPT !.size = <<>>, !.wallMargin = 3500]

ShopFeed == << [id |-> "mug", image |-> TRUE, tags |-> {"gift"}],
               [id |-> "pin", image |-> FALSE, tags |-> {"small"}],
               [id |-> "cap", image |-> TRUE, tags |-> {"gift", "small"}] >>
ProjectsFeed == << [id |-> "demo", image |-> TRUE, tags |-> {"web"}] >>

\* a feed response without an items array
NoFeed == [hasItems |-> FALSE, items |-> <<>>]
\* normalizeItems(feed)
NormalizeItems(feed) == IF feed.hasItems THEN feed.items ELSE <<>>

ThemeContent ==
    [name \in {"lobby", "neon"} |->
        IF name = "lobby"
        THEN [shop |-> [itemIds |-> {"mug", "pin"}, tagsAny |-> {}], projects |-> NoFilter]
        ELSE [shop |-> [itemIds |-> {}, tagsAny |-> {"small"}], projects |-> NoFilter]]

CatalogThemes == { "lobby", "neon", "default" }

StandardCatalog ==
    [rooms |-> [shop |-> NarrowRoom, projects |-> SquareRoom],
     themeContent |-> ThemeContent,
     shopItems |-> ShopFeed, projectItems |-> ProjectsFeed]

CatalogConfigs ==
    { StandardCatalog,
      [StandardCatalog EXCEPT !.rooms.shop = CrampedRoom],
      [StandardCatalog EXCEPT !.rooms.shop = UnsizedRoom],
      [StandardCatalog EXCEPT !.rooms.shop = LongRoom],
      [StandardCatalog EXCEPT !.projectItems = <<>>],
      [StandardCatalog EXCEPT !.shopItems = NormalizeItems(NoFeed)],
      [StandardCatalog EXCEPT !.rooms.shop = ForwardRoom],
      [StandardCatalog EXCEPT !.rooms.shop = FlatRoom] }

IdleApp == [pc |-> "idle", theme |-> "", room |-> "", index |-> 0, created |-> FALSE]

\* the system as its constructor leaves it
CatalogConstructed ==
    /\ applyToken = 0
    /\ roomNodes = [roomId \in RoomIds |-> <<>>]
    /\ cardGroups = <<>>
    /\ targets = <<>>
    /\ dynamicCards = <<>>
    /\ catColliders = <<>>
    /\ apps = [app \in 1..MaxApps |-> IdleApp]
    /\ lastBuilt = [roomId \in RoomIds |-> ""]

InitCatalog ==
    /\ catalogConfig \in CatalogConfigs
    /\ CatalogConstructed

\* the scene the catalog specification runs next to
InitPlainScene ==
    /\ sceneCfg = PlainRoom
    /\ LET loaded == LoadScene(PlainRoom)
       IN  /\ colliders = loaded.colliders
           /\ floorplanRecords = loaded.floorplanRecords
           /\ baseFloorplanBounds = loaded.baseFloorplanBounds
           /\ roomBounds = loaded.roomBounds
    /\ themeFloorplanBounds = <<>>
    /\ activeFloorplan = NoFloorplan
    /\ propRecords = <<>>
    /\ regHist = NoHist
    /\ playerPos = Origin
    /\ lastHits = 0
    /\ res = NoCall

NextCatalog ==
    \/ \E themeName \in CatalogThemes : StartApply(themeName)
    \/ \E app \in 1..MaxApps : ResumeTexture(app)
    \/ \E app \in 1..MaxApps : ResumeCard(app)
    \/ \E app \in 1..MaxApps : ResumeBuilt(app)

\* --- the item filter called directly, as buildRoomCards calls it

GiftFeed == << [id |-> "mug", image |-> TRUE, tags |-> {"Gift"}],
               [id |-> "pin", image |-> FALSE, tags |-> {"small"}],
               [id |-> "cap", image |-> TRUE, tags |-> {"gift", "Small"}],
               [id |-> "bag", image |-> TRUE, tags |-> {}] >>
FilterFeeds == { <<>>, ProjectsFeed, GiftFeed }
FilterSpecs == [itemIds : { {}, {"cap", "mug"}, {"pen"} },
                tagsAny : { {}, {"SMALL"}, {"gift", "web"}, {"rare"} }]
MaxItemsSettings == { Absent, 0, 1, 2, 3 }

\* the inputs of a filter call that has not run yet
PendingFilterCalls ==
    { [called |-> FALSE, items |-> items, filter |-> filter, layoutMax |-> layoutMax,
       out |-> <<>>] :
      items \in FilterFeeds, filter \in FilterSpecs, layoutMax \in MaxItemsSettings }

InitFilter ==
    /\ res \in PendingFilterCalls
    /\ playerPos = Origin
    /\ lastHits = 0
    /\ sceneCfg = PlainRoom
    /\ LET loaded == LoadScene(PlainRoom)
       IN  /\ colliders = loaded.colliders
           /\ floorplanRecords = loaded.floorplanRecords
           /\ baseFloorplanBounds = loaded.baseFloorplanBounds
           /\ roomBounds = loaded.roomBounds
    /\ themeFloorplanBounds = <<>>
    /\ activeFloorplan = NoFloorplan
    /\ propRecords = <<>>
    /\ regHist = NoHist

\* buildRoomCards computes maxItems and calls filterItems
CallFilterItems ==
    LET maxItems == OrElse(OrElse(res.layoutMax, Len(res.items)), 1)
    IN  /\ ~res.called
        /\ res' = [res EXCEPT !.called = TRUE,
                              !.out = FilterItems(res.items, res.filter, maxItems)]
        /\ UNCHANGED <<playerPos, lastHits, sceneVars, catalogVars, themeVars>>

NextFilter == CallFilterItems

\* the catalog while the other specifications run: constructed, not applied
IdleCatalog ==
    /\ catalogConfig = StandardCatalog
    /\ CatalogConstructed

-----------------------------------------------------------------------------
(* Theme atmosphere: AtmosphereSystem.apply and its overlapping calls *)

MaxApplies == 3

\* what apply reads of a config: whether it is an object, and per part
\* whether resolveQualityConfig gives an enabled part that builds something
NoAtmosphere == [given |-> FALSE, dome |-> FALSE, moon |-> FALSE, clouds |-> FALSE,
                 rain |-> FALSE]
BareSky == [NoAtmosphere EXCEPT !.given = TRUE]
NightSky == [BareSky EXCEPT !.dome = TRUE, !.moon = TRUE]
Overcast == [BareSky EXCEPT !.clouds = TRUE, !.rain = TRUE]
Drizzle == [BareSky EXCEPT !.rain = TRUE]
AtmosphereConfigs == { NoAtmosphere, BareSky, NightSky, Overcast, Drizzle }

IdleApply == [pc |-> "idle", config |-> NoAtmosphere, built |-> {}, ok |-> FALSE,
              failed |-> FALSE]

\* constructor: this.state = null, this.applyToken = 0
AtmosphereConstructed ==
    /\ atmosphereToken = 0
    /\ atmosphereState = 0
    /\ sceneRoots = {}
    /\ applies = [token \in 1..MaxApplies |-> IdleApply]

\* the parts of apply that are awaited, in the order of the try block
AwaitedParts == <<"dome", "moon", "clouds">>

\* the first awaited part at or after place i that the config enables
RECURSIVE NextPart(_, _)
NextPart(config, i) ==
    IF i > Len(AwaitedParts) THEN "end"
    ELSE IF config[AwaitedParts[i]] THEN AwaitedParts[i]
    ELSE NextPart(config, i + 1)

PartIndex(part) == CHOOSE i \in 1..Len(AwaitedParts) : AwaitedParts[i] = part

\* clear(): the root of this.state leaves the scene
ClearedRoots == IF atmosphereState = 0 THEN sceneRoots
                ELSE sceneRoots \ {atmosphereState}

\* disposeState(nextState): scene.remove(state.root)
DisposeState(roots, token) == roots \ {token}

\* apply runs from place i of the try block to its next await or to its end:
\* createRain, then either `this.state = nextState` or, with nothing built,
\* disposeState(nextState); both return true
ApplyContinue(token, config, built, i, roots, state) ==
    LET part == NextPart(config, i)
        all == IF config.rain THEN built \cup {"rain"} ELSE built
    IN  /\ applies' = [applies EXCEPT ![token] =
                [@ EXCEPT !.pc = IF part = "end" THEN "done" ELSE part,
                          !.config = config,
                          !.built = IF part = "end" THEN all ELSE built,
                          !.ok = (part = "end")]]
        /\ IF part # "end" THEN sceneRoots' = roots /\ atmosphereState' = state
           ELSE IF all = {}
           THEN sceneRoots' = DisposeState(roots, token) /\ atmosphereState' = state
           ELSE sceneRoots' = roots /\ atmosphereState' = token

AtmosphereFrame ==
    UNCHANGED <<moveVars, sceneVars, catalogVars, themeApplyToken, currentThemeName,
                selectValue, handlers, requests, driftVars, objectiveVars>>

\* apply(config) up to its first await
AtmosphereApply(config) ==
    LET token == atmosphereToken + 1
    IN  /\ atmosphereToken < MaxApplies
        /\ atmosphereToken' = token
        /\ IF ~config.given
           THEN /\ sceneRoots' = ClearedRoots
                /\ atmosphereState' = 0
                /\ applies' = [applies EXCEPT ![token] =
                        [@ EXCEPT !.pc = "done", !.config = config, !.ok = TRUE]]
           ELSE ApplyContinue(token, config, {}, 1, ClearedRoots \cup {token}, 0)
        /\ AtmosphereFrame

\* apply resumes after `await this.createDome(...)`, createMoon or
\* createCloudLayers: a superseded call disposes its nextState and returns
\* false, the current one goes on with the part built
AtmosphereResume(token) ==
    LET me == applies[token]
    IN  /\ me.pc \in { AwaitedParts[i] : i \in 1..Len(AwaitedParts) }
        /\ IF TokenAdvanced(token, atmosphereToken)
           THEN /\ sceneRoots' = DisposeState(sceneRoots, token)
                /\ applies' = [applies EXCEPT ![token].pc = "done", ![token].ok = FALSE]
                /\ UNCHANGED atmosphereState
           ELSE ApplyContinue(token, me.config, me.built \cup {me.pc},
                              PartIndex(me.pc) + 1, sceneRoots, atmosphereState)
        /\ UNCHANGED atmosphereToken
        /\ AtmosphereFrame

\* the code of a part that runs after its texture wait and may throw: in a
\* superseded call createDome and createMoon dispose their geometry and
\* material, createCloudLayers returns at once
MayThrow(part, superseded) == part \in {"dome", "moon"} \/ ~superseded

\* the awaited part rejects: `catch (error)` disposes nextState only
\* `if (token === this.applyToken)` and returns false
AtmosphereCatch(token) ==
    LET me == applies[token]
        superseded == TokenAdvanced(token, atmosphereToken)
    IN  /\ me.pc \in { AwaitedParts[i] : i \in 1..Len(AwaitedParts) }
        /\ MayThrow(me.pc, superseded)
        /\ sceneRoots' = IF superseded THEN sceneRoots
                         ELSE DisposeState(sceneRoots, token)
        /\ applies' = [applies EXCEPT ![token].pc = "done", ![token].ok = FALSE,
                                      ![token].failed = TRUE]
        /\ UNCHANGED <<atmosphereToken, atmosphereState>>
        /\ AtmosphereFrame

NextAtmosphere ==
    \/ \E config \in AtmosphereConfigs : AtmosphereApply(config)
    \/ \E token \in 1..MaxApplies : AtmosphereResume(token)
    \/ \E token \in 1..MaxApplies : AtmosphereCatch(token)

-----------------------------------------------------------------------------
(* Drift events: DriftEventsSystem. Times are in milliseconds; a sampled   *)
(* unit value is in thousandths. The seeded generator is left open: every  *)
(* draw may be any of the values in Units, which covers every seed.        *)

MaxDriftTime == 120000

MAX_SPAWNS_PER_UPDATE == 128

DRIFT_EVENT_TYPES == <<"fogPulse", "ambientMix", "stabilityDelta">>

DefaultSeed == "seperet-drift-v1"

\* values this.random() returns
Units == { 0, 999 }

\* toFiniteNumber(value, fallback); Absent stands for undefined and NaN
ToFiniteNumber(value, fallback) == IF value = Absent THEN fallback ELSE value

\* normalizeRange(source, fallback, floor, ceiling)
NormalizeRange(source, fallback, floor, ceiling) ==
    LET lo == Clamp(ToFiniteNumber(source.min, fallback.min), floor, ceiling)
        hi == Clamp(ToFiniteNumber(source.max, fallback.max), floor, ceiling)
    IN  IF lo <= hi THEN [min |-> lo, max |-> hi] ELSE [min |-> hi, max |-> lo]

DefaultEvents ==
    [type \in { DRIFT_EVENT_TYPES[i] : i \in 1..3 } |->
        [enabled |-> TRUE, chance |-> 1000, payload |-> TRUE,
         durationSeconds |->
            IF type = "fogPulse" THEN [min |-> 3000, max |-> 7000]
            ELSE IF type = "ambientMix" THEN [min |-> 5000, max |-> 12000]
            ELSE [min |-> 4000, max |-> 10000]]]

\* DEFAULT_CONFIG; `payload` of an event type: whether its payload can be
\* made (ambientMix without layers has none)
DEFAULT_CONFIG ==
    [enabled |-> TRUE, seed |-> DefaultSeed,
     baseIntervalSeconds |-> [min |-> 20000, max |-> 40000],
     maxConcurrentEvents |-> 2,
     eventWeights |-> [fogPulse |-> 420, ambientMix |-> 360, stabilityDelta |-> 220],
     events |-> DefaultEvents]

\* raw configs: the default, one event at a time with uncertain events,
\* spawn times 0.4 s apart under long events, a reversed interval with a
\* limit below 1, and the system switched off
SingleDrift ==
    [DEFAULT_CONFIG EXCEPT !.maxConcurrentEvents = 1, !.seed = "tide",
                           !.events.fogPulse.enabled = FALSE,
                           !.events.ambientMix.payload = FALSE,
                           !.events.stabilityDelta.chance = 500]
CrowdedDrift ==
    [DEFAULT_CONFIG EXCEPT !.baseIntervalSeconds = [min |-> 400, max |-> 400],
                           !.maxConcurrentEvents = Absent,
                           !.events.fogPulse.durationSeconds = [min |-> 90000, max |-> 90000],
                           !.events.ambientMix.durationSeconds = [min |-> 90000, max |-> 90000],
                           !.events.stabilityDelta.durationSeconds = [min |-> 500, max |-> 500]]
ReversedDrift ==
    [DEFAULT_CONFIG EXCEPT !.baseIntervalSeconds = [min |-> 30000, max |-> 20000],
                           !.maxConcurrentEvents = 0,
                           !.events.stabilityDelta.enabled = FALSE]
DisabledDrift == [DEFAULT_CONFIG EXCEPT !.enabled = FALSE]
RawDriftConfigs == { DEFAULT_CONFIG, SingleDrift, CrowdedDrift, ReversedDrift,
                     DisabledDrift }

\* normalizeEventWeights: the weight of a disabled type is 0 (the weights
\* given are positive, so their total is)
NormalizeEventWeights(weights, events) ==
    [type \in DOMAIN weights |-> IF events[type].enabled THEN Max(0, weights[type]) ELSE 0]

\* normalizeConfig(rawConfig); maxConcurrentEvents is given in whole numbers
NormalizeConfig(source) ==
    [source EXCEPT
        !.baseIntervalSeconds = NormalizeRange(@, DEFAULT_CONFIG.baseIntervalSeconds,
                                               250, 600000),
        !.maxConcurrentEvents = Clamp(ToFiniteNumber(@, DEFAULT_CONFIG.maxConcurrentEvents),
                                      1, 8),
        !.eventWeights = NormalizeEventWeights(@, source.events)]

DriftConfigs == { NormalizeConfig(raw) : raw \in RawDriftConfigs }

\* sampleRange(range) with the unit value drawn
SampleRange(range, unit) == range.min + ((range.max - range.min) * unit) \div 1000

\* sampleInterval()
SampleInterval(config, unit) == SampleRange(config.baseIntervalSeconds, unit)

EnabledTypes(config) ==
    SelectSeq(DRIFT_EVENT_TYPES,
              LAMBDA type : config.events[type].enabled /\ config.eventWeights[type] > 0)

RECURSIVE RollType(_, _, _, _)
RollType(config, types, i, roll) ==
    IF i > Len(types) THEN types[Len(types)]
    ELSE IF roll - config.eventWeights[types[i]] * 1000 <= 0 THEN types[i]
    ELSE RollType(config, types, i + 1, roll - config.eventWeights[types[i]] * 1000)

RECURSIVE TotalWeight(_, _, _)
TotalWeight(config, types, i) ==
    IF i > Len(types) THEN 0
    ELSE config.eventWeights[types[i]] + TotalWeight(config, types, i + 1)

\* chooseEventType(); "" is null
ChooseEventType(config, unit) ==
    LET types == EnabledTypes(config)
    IN  IF Len(types) = 0 THEN ""
        ELSE RollType(config, types, 1, unit * TotalWeight(config, types, 1))

\* createEvent(type, startTimeSeconds); <<>> is null, otherwise the event
CreateEvent(config, type, startTimeSeconds, counter, chanceUnit, durationUnit) ==
    LET eventConfig == config.events[type]
        durationSeconds == SampleRange(eventConfig.durationSeconds, durationUnit)
    IN  IF ~eventConfig.enabled \/ chanceUnit > eventConfig.chance \/ ~eventConfig.payload
        THEN <<>>
        ELSE << [id |-> <<type, counter>>, type |-> type,
                 startTimeSeconds |-> startTimeSeconds,
                 endTimeSeconds |-> startTimeSeconds + durationSeconds,
                 durationSeconds |-> durationSeconds] >>

HasRoomLoose(config, events) == Len(events) <= config.maxConcurrentEvents

\* this.activeEvents.length < this.config.maxConcurrentEvents
HasRoom(config, events) == Len(events) < config.maxConcurrentEvents

\* one turn of the loop of spawnEventsUntilCurrentTime, for every draw: the
\* type, the chance and the duration are drawn only when there is room
SpawnTurn(config, s) ==
    IF ~HasRoom(config, s.activeEvents) \/ Len(EnabledTypes(config)) = 0
    THEN { [s EXCEPT !.nextEventAt = @ + SampleInterval(config, unit)] : unit \in Units }
    ELSE { [s EXCEPT
                !.eventCounter = @ + 1,
                !.activeEvents = @ \o CreateEvent(config, ChooseEventType(config, draw[1]),
                                                  s.nextEventAt, s.eventCounter + 1,
                                                  draw[2], draw[3]),
                !.nextEventAt = @ + SampleInterval(config, draw[4])]
           : draw \in Units \X Units \X Units \X Units }

\* after the loop gave up: nextEventAt = timeSeconds + sampleInterval()
SpawnGivenUp(config, s) ==
    { [s EXCEPT !.nextEventAt = s.timeSeconds + SampleInterval(config, unit)]
      : unit \in Units }

\* the loop condition `this.timeSeconds >= this.nextEventAt`
SpawnDue(s) == s.timeSeconds >= s.nextEventAt

\* `turns` turns of the loop on every state the draws so far lead to; a
\* state that left the loop stays as it is. The turns are taken half by half.
RECURSIVE SpawnTurns(_, _, _)
SpawnTurns(config, states, turns) ==
    IF \A s \in states : ~SpawnDue(s) THEN states
    ELSE IF turns = 1
    THEN UNION { IF SpawnDue(s) THEN SpawnTurn(config, s) ELSE {s} : s \in states }
    ELSE SpawnTurns(config, SpawnTurns(config, states, turns \div 2),
                    turns - turns \div 2)

\* spawnEventsUntilCurrentTime(): the states it may leave; a state still
\* due after MAX_SPAWNS_PER_UPDATE turns is one the loop gave up on
SpawnEventsUntilCurrentTime(config, s) ==
    UNION { IF SpawnDue(t) THEN SpawnGivenUp(config, t) ELSE {t}
            : t \in SpawnTurns(config, {s}, MAX_SPAWNS_PER_UPDATE) }

\* pruneExpiredEvents()
PruneExpiredEvents(s) ==
    [s EXCEPT !.activeEvents =
        SelectSeq(@, LAMBDA event : event.endTimeSeconds > s.timeSeconds)]

\* createNeutralSnapshot(timeSeconds, seed, nextEventAt); round(value, 4)
\* keeps a whole number of milliseconds
CreateNeutralSnapshot(s) ==
    [timeSeconds |-> s.timeSeconds,
     nextEventInSeconds |-> Max(0, s.nextEventAt - s.timeSeconds),
     activeEvents |-> <<>>]

\* composeSnapshot(): the events in progress, without their effects
ComposeSnapshot(s) ==
    LET inProgress == SelectSeq(s.activeEvents,
                                LAMBDA event : ~(\/ s.timeSeconds < event.startTimeSeconds
                                                 \/ s.timeSeconds >= event.endTimeSeconds))
    IN  [CreateNeutralSnapshot(s) EXCEPT
            !.activeEvents = [i \in 1..Len(inProgress) |-> inProgress[i].id]]

SafeDelta(deltaSeconds) == Clamp(ToFiniteNumber(deltaSeconds, 0), 0, 60000)

\* advance(deltaSeconds): the states it may leave
Advance(config, s, deltaSeconds) ==
    LET moved == [s EXCEPT !.timeSeconds = @ + SafeDelta(deltaSeconds)]
    IN  IF ~config.enabled
        THEN { [PruneExpiredEvents(moved) EXCEPT
                    !.lastSnapshot = CreateNeutralSnapshot(moved)] }
        ELSE { [PruneExpiredEvents(spawned) EXCEPT
                    !.lastSnapshot = ComposeSnapshot(PruneExpiredEvents(spawned))]
               : spawned \in SpawnEventsUntilCurrentTime(config, moved) }

\* reset(seed) when sampleInterval() draws `unit`
ResetDrawing(config, seed, unit) ==
    [seed |-> IF seed = "" THEN DefaultSeed ELSE seed,
     timeSeconds |-> 0, eventCounter |-> 0, activeEvents |-> <<>>,
     nextEventAt |-> SampleInterval(config, unit),
     lastSnapshot |-> [timeSeconds |-> 0,
                       nextEventInSeconds |-> SampleInterval(config, unit),
                       activeEvents |-> <<>>]]

\* reset(seed): the states it may leave
Reset(config, seed) == { ResetDrawing(config, seed, unit) : unit \in Units }

\* seek(timeSeconds): the states it may leave
Seek(config, s, target) ==
    LET to == Max(0, ToFiniteNumber(target, 0))
    IN  IF to < s.timeSeconds
        THEN UNION { Advance(config, fresh, to - fresh.timeSeconds)
                     : fresh \in Reset(config, s.seed) }
        ELSE Advance(config, s, to - s.timeSeconds)

DriftState ==
    [seed |-> driftSeed, timeSeconds |-> timeSeconds, eventCounter |-> eventCounter,
     activeEvents |-> activeEvents, nextEventAt |-> nextEventAt,
     lastSnapshot |-> lastSnapshot]

\* the fields of the system become those of s
DriftBecomes(s) ==
    /\ driftSeed' = s.seed
    /\ timeSeconds' = s.timeSeconds
    /\ eventCounter' = s.eventCounter
    /\ activeEvents' = s.activeEvents
    /\ nextEventAt' = s.nextEventAt
    /\ lastSnapshot' = s.lastSnapshot

\* history: for a seek its argument and the time it was called at (update
\* is advance)
NoDriftCall == [op |-> "new", arg |-> 0, from |-> 0]

\* new DriftEventsSystem(config), the first interval drawn from `units`
DriftConstructed(configs, units) ==
    /\ driftConfig \in configs
    /\ \E s \in { ResetDrawing(driftConfig, driftConfig.seed, unit) : unit \in units } :
        /\ driftSeed = s.seed
        /\ timeSeconds = s.timeSeconds
        /\ eventCounter = s.eventCounter
        /\ activeEvents = s.activeEvents
        /\ nextEventAt = s.nextEventAt
        /\ lastSnapshot = s.lastSnapshot
    /\ driftCall = NoDriftCall

DriftFrame ==
    UNCHANGED <<driftConfig, moveVars, sceneVars, catalogVars, themeApplyToken,
                currentThemeName, selectValue, handlers, requests, atmosphereVars,
                objectiveVars>>

DriftSeeds == { "", "tide" }
DriftDeltas == { Absent, 0 - 1000, 25000, 90000 }
SeekTargets == { Absent, 10000, 100000 }

DriftReset(seed) ==
    /\ \E s \in Reset(driftConfig, seed) : DriftBecomes(s)
    /\ driftCall' = [op |-> "reset", arg |-> 0, from |-> 0]
    /\ DriftFrame

DriftAdvance(deltaSeconds) ==
    /\ timeSeconds + SafeDelta(deltaSeconds) <= MaxDriftTime
    /\ \E s \in Advance(driftConfig, DriftState, deltaSeconds) : DriftBecomes(s)
    /\ driftCall' = [op |-> "advance", arg |-> 0, from |-> 0]
    /\ DriftFrame

\* update(deltaSeconds) returns this.advance(deltaSeconds)
DriftUpdate(deltaSeconds) ==
    /\ timeSeconds + SafeDelta(deltaSeconds) <= MaxDriftTime
    /\ \E s \in Advance(driftConfig, DriftState, deltaSeconds) : DriftBecomes(s)
    /\ driftCall' = [op |-> "advance", arg |-> 0, from |-> 0]
    /\ DriftFrame

DriftSeek(target) ==
    /\ \E s \in Seek(driftConfig, DriftState, target) : DriftBecomes(s)
    /\ driftCall' = [op |-> "seek", arg |-> target, from |-> timeSeconds]
    /\ DriftFrame

NextDrift ==
    \/ \E seed \in DriftSeeds : DriftReset(seed)
    \/ \E deltaSeconds \in DriftDeltas : DriftAdvance(deltaSeconds)
    \/ \E deltaSeconds \in DriftDeltas : DriftUpdate(deltaSeconds)
    \/ \E target \in SeekTargets : DriftSeek(target)

-----------------------------------------------------------------------------
(* Stability and objectives: StabilityObjectivesSystem. The callbacks and  *)
(* the ui are observers: they do not call back into the system.            *)

\* an objective entry of the config; Absent is a field not given
RawObjective(id, target, optional) ==
    [id |-> id, target |-> target, progress |-> Absent, completed |-> FALSE,
     failed |-> FALSE, optional |-> optional, active |-> TRUE,
     stabilityDeltaOnComplete |-> 250, stabilityDeltaOnFail |-> 0 - 500]

\* normalizeObjectiveConfig(entry, index); a target of 0 is null
NormalizeObjectiveConfig(entry) ==
    LET target == IF entry.target # Absent /\ entry.target > 0 THEN entry.target ELSE 0
        progressSeed == Max(0, ToFiniteNumber(entry.progress, 0))
        progress == IF target # 0 THEN Clamp(progressSeed, 0, target) ELSE progressSeed
    IN  [entry EXCEPT !.target = target, !.progress = progress,
                      !.completed = entry.completed \/ (target # 0 /\ progress >= target)]

\* normalizeConfig: the objectives in order, a repeated id dropped
RECURSIVE NormalizeObjectives(_, _, _)
NormalizeObjectives(source, index, seenIds) ==
    IF index > Len(source) THEN <<>>
    ELSE IF source[index].id \in seenIds
    THEN NormalizeObjectives(source, index + 1, seenIds)
    ELSE <<NormalizeObjectiveConfig(source[index])>>
         \o NormalizeObjectives(source, index + 1, seenIds \cup {source[index].id})

\* normalizeStabilityConfig and normalizeConfig, for a stability config given
\* by min, max and initial
NormalizeObjectivesConfig(config) ==
    LET lo == Clamp(ToFiniteNumber(config.stability.min, 0), 0, 1000)
        hi == Clamp(ToFiniteNumber(config.stability.max, 1000), 0, 1000)
    IN  [stability |-> [min |-> Min(lo, hi), max |-> Max(lo, hi),
                        initial |-> Clamp(ToFiniteNumber(config.stability.initial, 850),
                                          Min(lo, hi), Max(lo, hi))],
         allRequiredCompletedStabilityDelta |->
            ToFiniteNumber(config.allRequiredCompletedStabilityDelta, 0),
         objectives |-> NormalizeObjectives(config.objectives, 1, {})]

DefaultStability == [min |-> Absent, max |-> Absent, initial |-> Absent]

\* two required objectives (one counted to 2) and an optional one
QuestConfig ==
    [stability |-> [min |-> Absent, max |-> Absent, initial |-> 500],
     allRequiredCompletedStabilityDelta |-> 250,
     objectives |-> << RawObjective("relay", 2, FALSE), RawObjective("gate", Absent, FALSE),
                       RawObjective("echo", Absent, TRUE) >>]
\* a required objective given as completed, a repeated id, no reward delta,
\* the stability range given reversed
HalfDoneConfig ==
    [stability |-> [min |-> 750, max |-> 250, initial |-> 950],
     allRequiredCompletedStabilityDelta |-> Absent,
     objectives |-> << [RawObjective("relay", 2, FALSE) EXCEPT !.progress = 5],
                       RawObjective("gate", 1, FALSE),
                       RawObjective("gate", Absent, TRUE) >>]
\* nothing is required
OptionalOnlyConfig ==
    [stability |-> DefaultStability, allRequiredCompletedStabilityDelta |-> 250,
     objectives |-> << RawObjective("echo", 1, TRUE) >>]
ObjectivesConfigs == { NormalizeObjectivesConfig(config)
                       : config \in { QuestConfig, HalfDoneConfig, OptionalOnlyConfig } }

\* constructor
ObjectivesConstructed(configs) ==
    /\ objectivesConfig \in configs
    /\ stability = objectivesConfig.stability.initial
    /\ objectives = objectivesConfig.objectives
    /\ allRequiredCompleteRewardGranted = FALSE
    /\ rewards = <<>>

\* this.objectivesById.get(readText(id, "")): the place of the objective, 0
\* when there is none
ObjectiveIndex(list, id) ==
    IF \E i \in 1..Len(list) : list[i].id = id
    THEN CHOOSE i \in 1..Len(list) : list[i].id = id
    ELSE 0

\* setStability(value): a change below 1e-5 is none
SetStability(config, previous, value) ==
    Clamp(ToFiniteNumber(value, previous), config.stability.min, config.stability.max)

\* adjustStability(delta)
AdjustStability(config, current, delta) ==
    IF ToFiniteNumber(delta, 0) = 0 THEN current
    ELSE SetStability(config, current, current + ToFiniteNumber(delta, 0))

RewardNeverGranted(granted) == FALSE

\* the guard of handleRequiredObjectivesComplete
RewardAlreadyGranted(granted) == granted

\* every objective that is not optional is completed, and there is one
AllRequiredComplete(list) ==
    LET required == SelectSeq(list, LAMBDA objective : ~objective.optional)
    IN  /\ Len(required) > 0
        /\ \A i \in 1..Len(required) : required[i].completed

\* history: of each objective, whether it is optional and completed
GrantMoment(list) ==
    [i \in 1..Len(list) |-> [optional |-> list[i].optional,
                             completed |-> list[i].completed]]

\* handleRequiredObjectivesComplete() on the state s = [stability,
\* objectives, granted, rewards]
HandleRequiredObjectivesComplete(config, s) ==
    IF RewardAlreadyGranted(s.granted) \/ ~AllRequiredComplete(s.objectives) THEN s
    ELSE [s EXCEPT !.granted = TRUE,
                   !.stability = AdjustStability(config, @,
                                                 config.allRequiredCompletedStabilityDelta),
                   !.rewards = Append(@, GrantMoment(s.objectives))]

\* completeObjective(id, {applyStabilityDelta}) for the objective at place i
CompleteAt(config, s, i, applyStabilityDelta) ==
    LET objective == s.objectives[i]
        done == [objective EXCEPT !.completed = TRUE, !.failed = FALSE, !.active = FALSE,
                                  !.progress = IF objective.target # 0 THEN objective.target
                                               ELSE @]
    IN  IF i = 0 \/ objective.completed THEN s
        ELSE HandleRequiredObjectivesComplete(config,
                [s EXCEPT !.objectives[i] = done,
                          !.stability =
                              IF applyStabilityDelta
                              THEN AdjustStability(config, @, done.stabilityDeltaOnComplete)
                              ELSE @])

\* failObjective(id, {applyStabilityDelta}) for the objective at place i
FailAt(config, s, i, applyStabilityDelta) ==
    LET objective == s.objectives[i]
    IN  IF i = 0 \/ objective.failed THEN s
        ELSE [s EXCEPT !.objectives[i] = [objective EXCEPT !.failed = TRUE,
                                                           !.active = FALSE,
                                                           !.completed = FALSE],
                       !.stability =
                           IF applyStabilityDelta
                           THEN AdjustStability(config, @, objective.stabilityDeltaOnFail)
                           ELSE @]

\* setObjectiveProgress(id, progress, {completeWhenTarget, force}) for the
\* objective at place i
ProgressAt(config, s, i, progress, completeWhenTarget, force) ==
    LET objective == s.objectives[i]
        nextRaw == Max(0, ToFiniteNumber(progress, objective.progress))
        nextProgress == IF objective.target # 0 THEN Clamp(nextRaw, 0, objective.target)
                        ELSE nextRaw
        moved == [s EXCEPT !.objectives[i].progress = nextProgress]
    IN  IF i = 0 THEN s
        ELSE IF ~force /\ (objective.completed \/ objective.failed) THEN s
        ELSE IF nextProgress = objective.progress THEN s
        ELSE IF /\ completeWhenTarget
                /\ objective.target # 0
                /\ nextProgress >= objective.target
                /\ ~objective.completed
        THEN CompleteAt(config, moved, i, TRUE)
        ELSE moved

ObjectivesState ==
    [stability |-> stability, objectives |-> objectives,
     granted |-> allRequiredCompleteRewardGranted, rewards |-> rewards]

ObjectivesBecome(s) ==
    /\ stability' = s.stability
    /\ objectives' = s.objectives
    /\ allRequiredCompleteRewardGranted' = s.granted
    /\ rewards' = s.rewards

ObjectivesFrame ==
    UNCHANGED <<objectivesConfig, moveVars, sceneVars, catalogVars, themeApplyToken,
                currentThemeName, selectValue, handlers, requests, atmosphereVars,
                driftVars>>

ObjectiveIds == { "relay", "gate", "echo", "none" }
ProgressValues == { Absent, 1, 2 }

CompleteObjective(id, applyStabilityDelta) ==
    /\ ObjectivesBecome(CompleteAt(objectivesConfig, ObjectivesState,
                                   ObjectiveIndex(objectives, id), applyStabilityDelta))
    /\ ObjectivesFrame

FailObjective(id, applyStabilityDelta) ==
    /\ ObjectivesBecome(FailAt(objectivesConfig, ObjectivesState,
                               ObjectiveIndex(objectives, id), applyStabilityDelta))
    /\ ObjectivesFrame

SetObjectiveProgress(id, progress, completeWhenTarget, force) ==
    /\ ObjectivesBecome(ProgressAt(objectivesConfig, ObjectivesState,
                                   ObjectiveIndex(objectives, id), progress,
                                   completeWhenTarget, force))
    /\ ObjectivesFrame

\* reset()
ObjectivesReset ==
    /\ stability' = objectivesConfig.stability.initial
    /\ allRequiredCompleteRewardGranted' = FALSE
    /\ objectives' = objectivesConfig.objectives
    /\ rewards' = <<>>
    /\ ObjectivesFrame

NextObjectives ==
    \/ \E id \in ObjectiveIds, apply \in BOOLEAN : CompleteObjective(id, apply)
    \/ \E id \in ObjectiveIds, apply \in BOOLEAN : FailObjective(id, apply)
    \/ \E id \in ObjectiveIds, progress \in ProgressValues,
          completeWhenTarget \in BOOLEAN, force \in BOOLEAN :
            SetObjectiveProgress(id, progress, completeWhenTarget, force)
    \/ ObjectivesReset

\* the objectives system while the other specifications run
IdleObjectives == ObjectivesConstructed({ NormalizeObjectivesConfig(OptionalOnlyConfig) })

\* the drift system while the other specifications run
IdleDrift == DriftConstructed({ NormalizeConfig(DisabledDrift) }, { 0 })

IdleSystems == IdleDrift /\ IdleObjectives

-----------------------------------------------------------------------------
(* Theme switching: ThemeSystem.applyTheme under the onThemeChange handler *)

MaxRequests == 2

NeonFloorplan == [given |-> TRUE, annexes |-> <<EastAnnex>>, profileBounds |-> NoBounds,
                  navigationBounds |-> NoBounds, extendNavigation |-> TRUE]

Lamp == [id |-> "lamp", collider |-> TRUE, size |-> <<400, 2000, 400>>,
         position |-> <<-3000, 1000, -3000>>]

\* themesConfig: per theme its floorplan and its additionalProps, the props
\* being those that filterThemePropsForDoorways keeps
ThemesConfig ==
    [defaultTheme |-> "lobby",
     themes |-> [name \in {"lobby", "neon"} |->
                   IF name = "lobby"
                   THEN [floorplan |-> NoFloorplan, additionalProps |-> <<Crate>>]
                   ELSE [floorplan |-> NeonFloorplan,
                         additionalProps |-> <<Banner, Lamp>>]]]

\* availableThemeIds of main.js
AvailableThemeIds == <<"lobby", "neon">>

\* themes[themeName] || themes[defaultTheme]
ThemeOf(themeName) ==
    IF themeName \in DOMAIN ThemesConfig.themes
    THEN ThemesConfig.themes[themeName]
    ELSE ThemesConfig.themes[ThemesConfig.defaultTheme]

\* the ids applyFirstWorkingTheme tries, in order, each once
RECURSIVE Dedupe(_, _, _)
Dedupe(list, i, seen) ==
    IF i > Len(list) THEN <<>>
    ELSE IF list[i] \in seen THEN Dedupe(list, i + 1, seen)
    ELSE <<list[i]>> \o Dedupe(list, i + 1, seen \cup {list[i]})

Candidates(themeName) ==
    Dedupe(<<themeName, ThemesConfig.defaultTheme>> \o AvailableThemeIds, 1, {})

IdleHandler == [pc |-> "idle", requested |-> "", candidate |-> 0, theme |-> "",
                token |-> 0, prop |-> 0, ok |-> FALSE, applied |-> "", catalogApp |-> 0,
                failed |-> FALSE]

\* the catalog next to the theme system: one shop item with an image
ThemeCatalog == [StandardCatalog EXCEPT !.shopItems = <<ShopFeed[1]>>,
                                        !.projectItems = <<>>]

InitTheme ==
    /\ themeApplyToken = 0
    /\ currentThemeName = ""
    /\ selectValue = ""
    /\ handlers = [h \in 1..MaxRequests |-> IdleHandler]
    /\ requests = <<>>
    /\ AtmosphereConstructed

\* the scene variables that theme actions never touch
ThemeSceneFrame == UNCHANGED <<sceneCfg, baseFloorplanBounds, moveVars>>

\* ThemeSystem.applyTheme(themeName) up to `await Promise.all([...])`
ApplyThemeStart(h, requested, candidate) ==
    /\ themeApplyToken' = themeApplyToken + 1
    /\ handlers' = [handlers EXCEPT ![h] =
            [@ EXCEPT !.pc = "materials", !.requested = requested,
                      !.candidate = candidate,
                      !.theme = Candidates(requested)[candidate],
                      !.token = themeApplyToken + 1, !.prop = 0, !.ok = FALSE,
                      !.failed = FALSE]]

\* the theme selector changes: overlay.js calls onThemeChange(select.value),
\* which runs up to the first await inside applyTheme
OnThemeChange(themeName) ==
    /\ Len(requests) < MaxRequests
    /\ requests' = Append(requests, themeName)
    /\ selectValue' = themeName
    /\ ApplyThemeStart(Len(requests) + 1, themeName, 1)
    /\ UNCHANGED <<currentThemeName, sceneVars, moveVars, catalogVars, systemVars>>

\* applyTheme resumes after the materials: floorplan, lights, then
\* removePropsByTag and addProps up to its first await
ThemeResumeMaterials(h) ==
    LET me == handlers[h]
        theme == ThemeOf(me.theme)
        built == ThemeFloorplanBuilt(theme.floorplan)
    IN  /\ me.pc = "materials"
        /\ IF TokenAdvanced(me.token, themeApplyToken)
           THEN /\ handlers' = [handlers EXCEPT ![h].pc = "applied", ![h].ok = FALSE]
                /\ UNCHANGED <<colliders, floorplanRecords, themeFloorplanBounds, activeFloorplan,
                               roomBounds, propRecords, regHist>>
           ELSE /\ colliders' = RemoveCollidersByTag(built.colliders, "theme-extra")
                /\ floorplanRecords' = built.records
                /\ themeFloorplanBounds' = built.bounds
                /\ activeFloorplan' = theme.floorplan
                /\ roomBounds' = ApplyFloorplanBounds(sceneCfg, theme.floorplan,
                                                      baseFloorplanBounds, built.bounds)
                /\ propRecords' = RemoveRecordsByTag(propRecords, "theme-extra")
                /\ regHist' = NoHist
                /\ handlers' = [handlers EXCEPT
                        ![h].pc = IF Len(theme.additionalProps) = 0 THEN "added"
                                  ELSE "mesh",
                        ![h].prop = 1]
        /\ ThemeSceneFrame
        /\ UNCHANGED <<themeApplyToken, currentThemeName, selectValue, requests, systemVars,
                       catalogVars>>

\* instantiateProp resumes after `await createPrimitiveMesh(...)`
ThemeResumeMesh(h) ==
    LET me == handlers[h]
        prop == ThemeOf(me.theme).additionalProps[me.prop]
    IN  /\ me.pc = "mesh"
        /\ IF TokenAdvanced(me.token, themeApplyToken)
           THEN UNCHANGED <<propRecords, colliders, regHist>>
           ELSE /\ propRecords' = Append(propRecords,
                                         [id |-> prop.id, tag |-> "theme-extra"])
                /\ colliders' = RegisterPropCollider(colliders, prop, "theme-extra")
                /\ regHist' = NoHist
        /\ handlers' = [handlers EXCEPT ![h].pc = "prop"]
        /\ ThemeSceneFrame
        /\ UNCHANGED <<floorplanRecords, themeFloorplanBounds, activeFloorplan, roomBounds,
                       themeApplyToken, currentThemeName, selectValue, requests, systemVars,
                       catalogVars>>

\* addProps resumes after `await instantiateProp(...)`
ThemeResumeProp(h) ==
    LET me == handlers[h]
        props == ThemeOf(me.theme).additionalProps
    IN  /\ me.pc = "prop"
        /\ handlers' = [handlers EXCEPT
                ![h].pc = IF TokenAdvanced(me.token, themeApplyToken) THEN "added"
                          ELSE IF me.prop < Len(props) THEN "mesh"
                          ELSE "added",
                ![h].prop = me.prop + 1]
        /\ UNCHANGED <<themeApplyToken, currentThemeName, selectValue, requests, systemVars,
                       sceneVars, moveVars, catalogVars>>

\* applyTheme resumes after `await this.sceneContext.addProps(...)`
ThemeResumeAdded(h) ==
    LET me == handlers[h]
    IN  /\ me.pc = "added"
        /\ IF TokenAdvanced(me.token, themeApplyToken)
           THEN /\ colliders' = RemoveCollidersByTag(colliders, "theme-extra")
                /\ propRecords' = RemoveRecordsByTag(propRecords, "theme-extra")
                /\ regHist' = NoHist
                /\ handlers' = [handlers EXCEPT ![h].pc = "applied", ![h].ok = FALSE]
           ELSE /\ handlers' = [handlers EXCEPT ![h].pc = "atmosphere"]
                /\ UNCHANGED <<colliders, propRecords, regHist>>
        /\ ThemeSceneFrame
        /\ UNCHANGED <<floorplanRecords, themeFloorplanBounds, activeFloorplan, roomBounds,
                       themeApplyToken, currentThemeName, selectValue, requests, systemVars,
                       catalogVars>>

\* applyTheme resumes after `await this.atmosphere.apply(...)` and returns
ThemeResumeAtmosphere(h) ==
    LET me == handlers[h]
    IN  /\ me.pc = "atmosphere"
        /\ IF TokenAdvanced(me.token, themeApplyToken)
           THEN /\ handlers' = [handlers EXCEPT ![h].pc = "applied", ![h].ok = FALSE]
                /\ UNCHANGED currentThemeName
           ELSE /\ currentThemeName' = me.theme
                /\ handlers' = [handlers EXCEPT ![h].pc = "applied", ![h].ok = TRUE]
        /\ UNCHANGED <<themeApplyToken, selectValue, requests, systemVars,
                       sceneVars, moveVars, catalogVars>>

\* the awaits of applyTheme whose promise may reject: the materials, and
\* addProps while a prop's mesh is being made
ThrowingAwaits == { "materials", "mesh" }

\* an awaited step of applyTheme rejects: `catch (error)` logs, calls
\* resetToBaseState and returns false, whatever the token; `failed` is
\* history: this call ended in the catch
ThemeCatch(h) ==
    LET me == handlers[h]
        built == ThemeFloorplanBuilt(NoFloorplan)
    IN  /\ me.pc \in ThrowingAwaits
        /\ colliders' = RemoveCollidersByTag(built.colliders, "theme-extra")
        /\ floorplanRecords' = built.records
        /\ themeFloorplanBounds' = built.bounds
        /\ activeFloorplan' = NoFloorplan
        /\ roomBounds' = ApplyFloorplanBounds(sceneCfg, NoFloorplan,
                                              baseFloorplanBounds, built.bounds)
        /\ propRecords' = RemoveRecordsByTag(propRecords, "theme-extra")
        /\ regHist' = NoHist
        /\ handlers' = [handlers EXCEPT ![h].pc = "applied", ![h].ok = FALSE,
                                        ![h].failed = TRUE]
        /\ ThemeSceneFrame
        /\ UNCHANGED <<themeApplyToken, currentThemeName, selectValue, requests, systemVars,
                       catalogVars>>

\* applyFirstWorkingTheme resumes after `await themeSystem.applyTheme(id)`
ThemeResumeApplied(h) ==
    LET me == handlers[h]
    IN  /\ me.pc = "applied"
        /\ IF me.ok
           THEN /\ handlers' = [handlers EXCEPT ![h].pc = "resolved",
                                                ![h].applied = me.theme]
                /\ UNCHANGED themeApplyToken
           ELSE IF me.candidate < Len(Candidates(me.requested))
           THEN ApplyThemeStart(h, me.requested, me.candidate + 1)
           ELSE /\ handlers' = [handlers EXCEPT ![h].pc = "resolved",
                                                ![h].applied = ""]
                /\ UNCHANGED themeApplyToken
        /\ UNCHANGED <<currentThemeName, selectValue, requests, systemVars,
                       sceneVars, moveVars, catalogVars>>

\* onThemeChange resumes after `await applyFirstWorkingTheme(...)`: without a
\* working theme it resets the ThemeSystem; then it sets the selector and
\* starts the catalog application
ThemeResumeResolved(h) ==
    LET me == handlers[h]
        appliedTheme == IF me.applied # "" THEN me.applied ELSE AvailableThemeIds[1]
        built == ThemeFloorplanBuilt(NoFloorplan)
    IN  /\ me.pc = "resolved"
        /\ applyToken < MaxApps
        /\ IF me.applied # ""
           THEN UNCHANGED <<colliders, floorplanRecords, themeFloorplanBounds, activeFloorplan,
                            roomBounds, propRecords, regHist>>
           ELSE /\ colliders' = RemoveCollidersByTag(built.colliders, "theme-extra")
                /\ floorplanRecords' = built.records
                /\ themeFloorplanBounds' = built.bounds
                /\ activeFloorplan' = NoFloorplan
                /\ roomBounds' = ApplyFloorplanBounds(sceneCfg, NoFloorplan,
                                                      baseFloorplanBounds, built.bounds)
                /\ propRecords' = RemoveRecordsByTag(propRecords, "theme-extra")
                /\ regHist' = NoHist
        /\ selectValue' = appliedTheme
        /\ applyToken' = applyToken + 1
        /\ BuildRoomCards(applyToken + 1, applyToken + 1, appliedTheme, "shop")
        /\ handlers' = [handlers EXCEPT ![h].pc = "catalog",
                                        ![h].applied = appliedTheme,
                                        ![h].catalogApp = applyToken + 1]
        /\ ThemeSceneFrame
        /\ UNCHANGED <<catalogConfig, themeApplyToken, currentThemeName, requests, systemVars>>

\* onThemeChange resumes after `await catalogSystem.applyTheme(appliedTheme)`
ThemeResumeCatalog(h) ==
    LET me == handlers[h]
    IN  /\ me.pc = "catalog"
        /\ apps[me.catalogApp].pc = "done"
        /\ handlers' = [handlers EXCEPT ![h].pc = "done"]
        /\ UNCHANGED <<themeApplyToken, currentThemeName, selectValue, requests, systemVars,
                       sceneVars, moveVars, catalogVars>>

NextTheme ==
    \/ \E themeName \in DOMAIN ThemesConfig.themes : OnThemeChange(themeName)
    \/ \E h \in 1..MaxRequests : ThemeResumeMaterials(h)
    \/ \E h \in 1..MaxRequests : ThemeResumeMesh(h)
    \/ \E h \in 1..MaxRequests : ThemeResumeProp(h)
    \/ \E h \in 1..MaxRequests : ThemeResumeAdded(h)
    \/ \E h \in 1..MaxRequests : ThemeResumeAtmosphere(h)
    \/ \E h \in 1..MaxRequests : ThemeResumeApplied(h)
    \/ \E h \in 1..MaxRequests : ThemeResumeResolved(h)
    \/ \E h \in 1..MaxRequests : ThemeResumeCatalog(h)
    \/ \E app \in 1..MaxApps : ResumeTexture(app)
    \/ \E app \in 1..MaxApps : ResumeCard(app)
    \/ \E app \in 1..MaxApps : ResumeBuilt(app)

-----------------------------------------------------------------------------
(* Specifications: each runs one subsystem next to the others at rest *)

InitSceneSpec == InitScene /\ IdleCatalog /\ InitTheme /\ IdleSystems
SpecScene == InitSceneSpec /\ [][NextScene]_vars

InitResolverSpec == InitResolver /\ IdleCatalog /\ InitTheme /\ IdleSystems
SpecResolver == InitResolverSpec /\ [][NextResolver]_vars

InitMoveSpec == InitMove /\ IdleCatalog /\ InitTheme /\ IdleSystems
SpecMove == InitMoveSpec /\ [][NextMove]_vars

InitCatalogSpec == InitCatalog /\ InitPlainScene /\ InitTheme /\ IdleSystems
SpecCatalog == InitCatalogSpec /\ [][NextCatalog]_vars

InitFilterSpec == InitFilter /\ IdleCatalog /\ InitTheme /\ IdleSystems
SpecFilter == InitFilterSpec /\ [][NextFilter]_vars

\* the scene under theme floorplan changes alone
NextFloorplan ==
    \/ \E fp \in ThemeFloorplans : ApplyThemeFloorplan(fp)
    \/ ResetThemeFloorplan
InitFloorplanSpec == SceneLoaded(FloorplanConfigs) /\ IdleCatalog /\ InitTheme /\ IdleSystems
SpecFloorplan == InitFloorplanSpec /\ [][NextFloorplan]_vars

InitThemeSpec ==
    /\ InitTheme /\ IdleSystems
    /\ InitPlainScene
    /\ catalogConfig = ThemeCatalog
    /\ CatalogConstructed
SpecTheme == InitThemeSpec /\ [][NextTheme]_vars

\* theme switching when awaited steps may reject
NextThemeFailure ==
    \/ NextTheme
    \/ \E h \in 1..MaxRequests : ThemeCatch(h)
SpecThemeFailure == InitThemeSpec /\ [][NextThemeFailure]_vars

InitAtmosphereSpec == InitTheme /\ IdleSystems /\ InitPlainScene /\ IdleCatalog
SpecAtmosphere == InitAtmosphereSpec /\ [][NextAtmosphere]_vars

InitDriftSpec ==
    /\ DriftConstructed(DriftConfigs, Units)
    /\ IdleObjectives
    /\ InitTheme /\ InitPlainScene /\ IdleCatalog
SpecDrift == InitDriftSpec /\ [][NextDrift]_vars

InitObjectivesSpec ==
    /\ ObjectivesConstructed(ObjectivesConfigs)
    /\ IdleDrift
    /\ InitTheme /\ InitPlainScene /\ IdleCatalog
SpecObjectives == InitObjectivesSpec /\ [][NextObjectives]_vars

-----------------------------------------------------------------------------
(* Properties *)

\* C5: after every recomputation of the navigation bounds, for every room
\* size, annex list and override, minX < maxX and minZ < maxZ.
C5_BoundsWellFormed ==
    /\ roomBounds.minX < roomBounds.maxX
    /\ roomBounds.minZ < roomBounds.maxZ

\* the state C5 fails in: a room no wider than twice the margin, no override
C5_TinyRoomInverted ==
    /\ sceneCfg.size[1] <= 2800
    /\ ~sceneCfg.navigationBounds.given
    /\ roomBounds.minX >= roomBounds.maxX

\* strictly inside the rectangle of collider c grown by radius on each side
StrictlyInsideGrown(position, radius, c) ==
    /\ c.minX - radius < position.x /\ position.x < c.maxX + radius
    /\ c.minZ - radius < position.z /\ position.z < c.maxZ + radius

OutsideEveryCollider ==
    \A i \in 1..Len(colliders) : ~StrictlyInsideGrown(res.pos, res.radius, colliders[i])

\* C7: a resolver call on a position that is not strictly inside any
\* collider's radius-expanded rectangle returns the position unchanged and
\* reports zero corrections.
C7_ResolverNoOpOutside ==
    (res.called /\ OutsideEveryCollider) => (res.out = res.pos /\ res.hits = 0)

\* a call on a position that lies on the expanded edge of an enabled collider
\* in its height range, and inside none
C7_OnEdgeWitness ==
    /\ res.called
    /\ OutsideEveryCollider
    /\ \E i \in 1..Len(colliders) :
          /\ Applies(colliders[i], res.sampleY)
          /\ IsInsideExpandedBoxLoose(res.pos, res.radius, colliders[i])
    /\ res.out = res.pos

\* C8: a removal by tag repeated with nothing added in between leaves the
\* registry exactly as the first removal left it.
C8_RemoveByTagIdempotent ==
    regHist.streak >= 2 =>
        <<colliders, propRecords, floorplanRecords>> = regHist.after

\* a repeated removal whose first call removed at least two colliders
C8_RepeatedRemovalWitness ==
    /\ regHist.streak >= 2
    /\ regHist.kind = "props"
    /\ regHist.removed >= 2

\* C9: after every movement update the player position lies inside the
\* navigation bounds.
C9_PositionInsideBounds ==
    /\ roomBounds.minX <= playerPos.x /\ playerPos.x <= roomBounds.maxX
    /\ roomBounds.minZ <= playerPos.z /\ playerPos.z <= roomBounds.maxZ

\* the update C9 fails in: the resolver pushed the clamped position out
C9_PushedOutside ==
    /\ lastHits > 0
    /\ playerPos.x > roomBounds.maxX

FrontWallNames == { "south_wall", "south_wall_left", "south_wall_right" }

\* C10: with a front entrance, the left and right jamb colliders are as wide
\* as the wall that remains on each side of the clamped doorway, and no
\* front-wall collider overlaps the doorway's X interval.
C10_JambsMatchRemainingWall ==
    sceneCfg.frontEntrance.enabled =>
        LET doorMinX == FrontDoorCenterX(sceneCfg) - Half(FrontDoorWidth(sceneCfg))
            doorMaxX == FrontDoorCenterX(sceneCfg) + Half(FrontDoorWidth(sceneCfg))
            halfW == Half(sceneCfg.size[1])
        IN  \A i \in 1..Len(colliders) :
              LET c == colliders[i]
              IN  /\ c.id = RoomId("south_wall_left") =>
                        c.maxX - c.minX = doorMinX - (-halfW)
                  /\ c.id = RoomId("south_wall_right") =>
                        c.maxX - c.minX = halfW - doorMaxX
                  /\ (c.id[1] = "room" /\ c.id[2] \in FrontWallNames) =>
                        ~(c.minX < doorMaxX /\ c.maxX > doorMinX)

\* the state C10 fails in: a jamb collider wider than the wall left for it
C10_JambBeyondWall ==
    /\ sceneCfg.frontEntrance.enabled
    /\ \E i \in 1..Len(colliders) :
          /\ colliders[i].id = RoomId("south_wall_right")
          /\ colliders[i].maxX > Half(sceneCfg.size[1])

Quiescent == \A app \in 1..MaxApps : apps[app].pc \in {"idle", "done"}

\* the number of cards one application of a theme on its own leaves
ExpectedRoomCards(themeName, roomId) ==
    Min(Len(RoomItems(themeName, roomId)),
        SlotPoolSize(roomId, RequiredRooms(themeName, roomId)))
ExpectedCards(themeName) ==
    ExpectedRoomCards(themeName, "shop") + ExpectedRoomCards(themeName, "projects")

OnlyFrom(list, app) == \A i \in 1..Len(list) : list[i].app = app

\* C1: when overlapping catalog applyTheme calls have all finished, the
\* targets, dynamic cards, card groups and catalog colliders all come from
\* the last call, the target list is as long as the last theme's card count
\* and no card appears twice.
C1_OnlyLastApplicationRemains ==
    (Quiescent /\ applyToken >= 2) =>
        /\ OnlyFrom(targets, applyToken)
        /\ OnlyFrom(dynamicCards, applyToken)
        /\ OnlyFrom(cardGroups, applyToken)
        /\ OnlyFrom(catColliders, applyToken)
        /\ Len(targets) = ExpectedCards(apps[applyToken].theme)
        /\ \A i, j \in 1..Len(targets) : i # j => targets[i].id # targets[j].id

\* the first call was superseded during its shop room (it ended there) and
\* the second call ran to the end and left cards
C1_OverlapWitness ==
    /\ Quiescent
    /\ applyToken = 2
    /\ apps[1].room = "shop"
    /\ apps[1].index < Len(RoomItems(apps[1].theme, "shop"))
    /\ apps[2].room = "projects"
    /\ Len(targets) >= 2

CountFrom(list, app) == Cardinality({ i \in 1..Len(list) : list[i].app = app })

Running(app) == apps[app].pc \in {"texture", "card", "built"}

\* the card call `app` is building while it awaits the texture
PendingCard(app) ==
    LET me == apps[app]
        slot == SlotPool(me.room,
                         ReconcileNodes(RequiredRooms(me.theme, me.room)))[me.index + 1]
    IN  [roomId |-> me.room, roomIndex |-> slot.roomIndex, wall |-> slot.wall,
         offset |-> slot.offset,
         id |-> <<me.room, RoomItems(me.theme, me.room)[me.index + 1].id>>,
         app |-> app]

\* C4: a catalog application whose token has been passed adds nothing to the
\* targets, the dynamic cards or the colliders; at its next check after an
\* await it removes the card group it was building and goes on to return.
C4_StaleApplicationAborts ==
    [][\A app \in 1..MaxApps :
          (Running(app) /\ app # applyToken) =>
              /\ CountFrom(targets', app) <= CountFrom(targets, app)
              /\ CountFrom(dynamicCards', app) <= CountFrom(dynamicCards, app)
              /\ CountFrom(catColliders', app) <= CountFrom(catColliders, app)
              /\ CountFrom(cardGroups', app) <= CountFrom(cardGroups, app)
              /\ (apps[app].pc = "texture" /\ apps'[app] # apps[app]) =>
                    /\ \A i \in 1..Len(cardGroups') : cardGroups'[i] # PendingCard(app)
                    /\ apps'[app].pc = "card" /\ ~apps'[app].created
              /\ (apps[app].pc = "card" /\ apps'[app] # apps[app]) =>
                    apps'[app].pc = "built"
              /\ (apps[app].pc = "built" /\ apps'[app] # apps[app]) =>
                    apps'[app].pc = "done"]_vars

\* a superseded call that has just dropped the card it was building in the
\* projects room, which no later call had cleared yet
C4_AbortedWitness ==
    /\ applyToken = 2
    /\ apps[1].pc = "card"
    /\ ~apps[1].created
    /\ apps[1].room = "projects"
    /\ apps[2].pc = "texture"
    /\ apps[2].room = "shop"

\* C6: after a category is reconciled, the capacity of one of its rooms times
\* the number of its rooms is at least the number of filtered items.
C6_CapacityCoversItems ==
    \A roomId \in RoomIds :
        lastBuilt[roomId] # "" =>
            Len(NodeSlots(catalogConfig.rooms[roomId])) * Len(roomNodes[roomId])
                >= Len(RoomItems(lastBuilt[roomId], roomId))

\* the state C6 fails in: a shop without a configured size, reconciled to one
\* room that has fewer slots than the capacity the room count was computed from
C6_UnsizedRoomShort ==
    /\ lastBuilt["shop"] # ""
    /\ catalogConfig.rooms["shop"].size = <<>>
    /\ Len(roomNodes["shop"]) = 1
    /\ Len(NodeSlots(catalogConfig.rooms["shop"]))
          < ComputeRoomCapacity(catalogConfig.rooms["shop"])
    /\ Len(RoomItems(lastBuilt["shop"], "shop"))
          > Len(NodeSlots(catalogConfig.rooms["shop"]))

\* a burst of requests was made and every handler and catalog call returned
Settled ==
    /\ Len(requests) >= 2
    /\ \A h \in 1..MaxRequests : handlers[h].pc \in {"idle", "done"}
    /\ \A h \in 1..Len(requests) : handlers[h].pc = "done"
    /\ Quiescent

LastRequested == requests[Len(requests)]

ThemeExtraIds ==
    LET extra == SelectSeq(propRecords, LAMBDA item : item.tag = "theme-extra")
    IN  [i \in 1..Len(extra) |-> extra[i].id]

\* the theme-extra props one application of the theme on its own leaves
SoloThemeExtraIds(themeName) ==
    LET props == ThemeOf(themeName).additionalProps
    IN  [i \in 1..Len(props) |-> props[i].id]

\* C2: once a burst of theme selections has settled, the theme-extra props
\* are those of the final theme applied on its own: as many, none of a
\* superseded application, all of the final theme's.
C2_BurstLeavesFinalThemeProps ==
    Settled => ThemeExtraIds = SoloThemeExtraIds(LastRequested)

\* the state C2 fails in: everything settled and no theme-extra prop is left
C2_PropsLost ==
    /\ Settled
    /\ ThemeExtraIds = <<>>
    /\ SoloThemeExtraIds(LastRequested) # <<>>

\* C3: once a burst of theme-change requests has settled, the selector value,
\* ThemeSystem.currentThemeName and the theme of the last catalog
\* application all equal the last requested theme.
C3_LastRequestedThemeInEffect ==
    Settled =>
        /\ selectValue = LastRequested
        /\ currentThemeName = LastRequested
        /\ apps[applyToken].theme = LastRequested

\* the state C3 fails in: everything settled on a theme other than the last
\* requested one
C3_OtherThemeInEffect ==
    /\ Settled
    /\ LastRequested \in DOMAIN ThemesConfig.themes
    /\ selectValue # LastRequested
    /\ currentThemeName # LastRequested
    /\ apps[applyToken].theme # LastRequested

\* the annex configurations by group name
AnnexPool == { EastAnnex, FrontAnnex, TinyAnnex, HiddenAnnex, CornerAnnex }
AnnexNamed(name) == CHOOSE annex \in AnnexPool : annex.id = name

Sides == { "north", "south", "east", "west" }

\* how many colliders of the registry cs carry the id of the annex's wall
WallColliders(cs, annex, side, tag) ==
    Cardinality({ i \in 1..Len(cs) : cs[i].id = <<annex.id, side>> /\ cs[i].tag = tag })

\* the side is not the open side and its thin rectangle overlaps no zone
WallExpected(annex, side) ==
    LET zones == CreateProtectedFloorplanZones(sceneCfg)
    IN  /\ side # annex.openSide
        /\ \A i \in 1..Len(zones) : ~BoundsOverlap2D(AnnexWallBounds(annex, side), zones[i])

AnnexWallsAsExpected(cs, annex, tag) ==
    \A side \in Sides :
        WallColliders(cs, annex, side, tag) = IF WallExpected(annex, side) THEN 1 ELSE 0

BaseAnnexWalls ==
    \A i \in 1..Len(sceneCfg.annexes) :
        sceneCfg.annexes[i].enabled =>
            AnnexWallsAsExpected(colliders, sceneCfg.annexes[i], "floorplan-base")

ThemeWallIds(cs) ==
    { cs[i].id : i \in { j \in 1..Len(cs) : cs[j].tag = "floorplan-theme" } }

\* a step that built theme annexes: the theme walls changed and no removal ran
BuiltThemeAnnexes ==
    /\ regHist'.kind = "none"
    /\ ThemeWallIds(colliders') # ThemeWallIds(colliders)

\* C11: for every enabled annex and each of its four sides, the wall's
\* collider is built exactly when the side is not the annex's open side and
\* the wall's thin rectangle overlaps no protected zone; this holds for the
\* base annexes from scene load on and for the theme annexes after every
\* step that builds them.
C11_AnnexWallsBuiltWhenAllowed ==
    /\ []BaseAnnexWalls
    /\ [][BuiltThemeAnnexes =>
            \A i \in 1..Len(floorplanRecords') :
                floorplanRecords'[i].tag = "floorplan-theme" =>
                    AnnexWallsAsExpected(colliders', AnnexNamed(floorplanRecords'[i].name),
                                         "floorplan-theme")]_vars

\* an annex open to the west whose north wall meets a protected zone has
\* exactly its east and south walls, next to a theme annex that was built
C11_OpenWestBlockedNorth ==
    /\ sceneCfg.annexes = <<CornerAnnex>>
    /\ \E i \in 1..Len(CreateProtectedFloorplanZones(sceneCfg)) :
            BoundsOverlap2D(AnnexWallBounds(CornerAnnex, "north"),
                            CreateProtectedFloorplanZones(sceneCfg)[i])
    /\ { side \in Sides : WallColliders(colliders, CornerAnnex, side, "floorplan-base") = 1 }
            = { "east", "south" }
    /\ \E i \in 1..Len(floorplanRecords) : floorplanRecords[i].tag = "floorplan-theme"
    /\ ThemeWallIds(colliders) # {}

\* the 0-based feed position of the item a card was built for
FeedPosition(card) ==
    LET items == RoomItems(apps[card.app].theme, card.roomId)
    IN  (CHOOSE n \in 1..Len(items) : <<card.roomId, items[n].id>> = card.id) - 1

\* the card sits in room floor(k / c) at slot k mod c of that room
PlacedInFeedOrder(card) ==
    LET config == catalogConfig.rooms[card.roomId]
        c == ComputeRoomCapacity(config)
        k == FeedPosition(card)
    IN  c >= 1 =>
            /\ card.roomIndex = k \div c
            /\ (k % c) + 1 <= Len(NodeSlots(config))
            /\ NodeSlots(config)[(k % c) + 1] = [wall |-> card.wall, offset |-> card.offset]

RoomTargets(roomId) == SelectSeq(targets, LAMBDA card : card.roomId = roomId)

\* the last application has run through both rooms
LastApplicationDone ==
    /\ Quiescent
    /\ applyToken >= 1
    /\ apps[applyToken].room = "projects"

\* C12: with per-room capacity c >= 1 the k-th filtered item (0-based) is
\* placed in room floor(k / c) at slot k mod c, and once the application has
\* finished every filtered item of a room has been placed.
C12_ItemsFillSlotsInOrder ==
    /\ \A i \in 1..Len(targets) : PlacedInFeedOrder(targets[i])
    /\ LastApplicationDone =>
            \A roomId \in RoomIds :
                ComputeRoomCapacity(catalogConfig.rooms[roomId]) >= 1 =>
                    Len(RoomTargets(roomId))
                        = Len(RoomItems(apps[applyToken].theme, roomId))

\* the state C12 fails in: a computed capacity of three, one room with one
\* slot built, and two of the three items left without a card
C12_ItemsLeftUnplaced ==
    /\ LastApplicationDone
    /\ catalogConfig.rooms["shop"].size = <<>>
    /\ ComputeRoomCapacity(catalogConfig.rooms["shop"]) = 3
    /\ Len(roomNodes["shop"]) = 1
    /\ Len(RoomItems(apps[applyToken].theme, "shop")) = 3
    /\ Len(RoomTargets("shop")) = 1

\* the override applyFloorplanBounds reads from the active theme floorplan
ExplicitOverride ==
    IF activeFloorplan.profileBounds.given THEN activeFloorplan.profileBounds
    ELSE activeFloorplan.navigationBounds

Rectangle(b) == [minX |-> b.minX, maxX |-> b.maxX, minZ |-> b.minZ, maxZ |-> b.maxZ]

WellFormedOverride(b) == b.finite /\ b.minX < b.maxX /\ b.minZ < b.maxZ

\* the room's rectangle from its size alone: half the size less the margin
SizeRectangle ==
    [minX |-> -(Half(sceneCfg.size[1]) - 1400), maxX |-> Half(sceneCfg.size[1]) - 1400,
     minZ |-> -(Half(sceneCfg.size[3]) - 1400), maxZ |-> Half(sceneCfg.size[3]) - 1400]

\* C13 as stated: if the active theme floorplan carries an explicit bounds
\* override, the navigation bounds after it is applied equal that override.
C13_OverrideUsedVerbatim ==
    (activeFloorplan.given /\ ExplicitOverride.given) =>
        roomBounds = Rectangle(ExplicitOverride)

\* C13 amended: an explicit override of four finite numbers with minX < maxX
\* and minZ < maxZ becomes the navigation bounds; any other explicit override
\* gives the rectangle of the room size alone; no annex contributes in either
\* case.
C13_OverrideUsedWhenWellFormed ==
    (activeFloorplan.given /\ ExplicitOverride.given) =>
        roomBounds = IF WellFormedOverride(ExplicitOverride)
                     THEN Rectangle(ExplicitOverride)
                     ELSE SizeRectangle

\* a well-formed override is in force although a theme annex reaches past it
C13_OverrideBesideAnnex ==
    /\ activeFloorplan.given
    /\ ExplicitOverride.given
    /\ WellFormedOverride(ExplicitOverride)
    /\ roomBounds = Rectangle(ExplicitOverride)
    /\ \E i \in 1..Len(themeFloorplanBounds) :
            themeFloorplanBounds[i].maxX > roomBounds.maxX
    /\ baseFloorplanBounds # <<>>

\* the primary room's rectangle: the room's own navigationBounds if they are
\* well formed, else the rectangle of the room size
PrimaryRectangle ==
    IF sceneCfg.navigationBounds.given /\ WellFormedOverride(sceneCfg.navigationBounds)
    THEN Rectangle(sceneCfg.navigationBounds)
    ELSE SizeRectangle

ThemeExtends == ~activeFloorplan.given \/ activeFloorplan.extendNavigation

\* the rectangles that take part in the union
UnionRectangles ==
    { PrimaryRectangle }
        \cup { baseFloorplanBounds[i] : i \in 1..Len(baseFloorplanBounds) }
        \cup IF ThemeExtends
             THEN { themeFloorplanBounds[i] : i \in 1..Len(themeFloorplanBounds) }
             ELSE {}

Least(values) == CHOOSE v \in values : \A w \in values : v <= w
Greatest(values) == CHOOSE v \in values : \A w \in values : v >= w

\* C14: without an explicit override the navigation bounds are the
\* component-wise min/max over the primary room rectangle, every base annex
\* rectangle and, unless the theme disables bounds extension, every theme
\* annex rectangle.
C14_BoundsAreUnionOfRectangles ==
    ~(activeFloorplan.given /\ ExplicitOverride.given) =>
        roomBounds = [minX |-> Least({ r.minX : r \in UnionRectangles }),
                      maxX |-> Greatest({ r.maxX : r \in UnionRectangles }),
                      minZ |-> Least({ r.minZ : r \in UnionRectangles }),
                      maxZ |-> Greatest({ r.maxZ : r \in UnionRectangles })]

\* a theme annex and a base annex both widen the bounds past the room
C14_BothAnnexKindsWiden ==
    /\ activeFloorplan.given
    /\ ~ExplicitOverride.given
    /\ activeFloorplan.extendNavigation
    /\ roomBounds.maxX > PrimaryRectangle.maxX
    /\ roomBounds.maxZ > PrimaryRectangle.maxZ
    /\ \E i \in 1..Len(themeFloorplanBounds) : themeFloorplanBounds[i].maxX = roomBounds.maxX
    /\ \E i \in 1..Len(baseFloorplanBounds) : baseFloorplanBounds[i].maxZ = roomBounds.maxZ

SameTagIgnoringCase(a, b) == ToLowerCase(a) = ToLowerCase(b)

\* the selection the filter is said to make from the feed of call `call`
SelectedItems(call) ==
    LET byId(item) == item.id \in call.filter.itemIds
        byTag(item) == \E a \in item.tags, b \in call.filter.tagsAny :
                           SameTagIgnoringCase(a, b)
        chosen == IF call.filter.itemIds # {} THEN SelectSeq(call.items, byId)
                  ELSE IF call.filter.tagsAny # {} THEN SelectSeq(call.items, byTag)
                  ELSE call.items
    IN  IF chosen = <<>> THEN call.items ELSE chosen

\* C15: the selection is by id when itemIds is non-empty, else by a shared
\* tag (ignoring case) when tagsAny is non-empty, else the whole feed; an
\* empty selection is replaced by the whole feed; the result is the first
\* max items of it in feed order (all of it when no max is configured).
C15_FilterSelectsThenTruncates ==
    res.called =>
        LET selection == SelectedItems(res)
            max == IF res.layoutMax = Absent \/ res.layoutMax = 0
                   THEN Len(selection) ELSE res.layoutMax
        IN  res.out = [n \in 1..(IF max < Len(selection) THEN max ELSE Len(selection))
                          |-> selection[n]]

\* a tag filter that matches only when case is ignored, cut to the maximum
C15_TagMatchTruncated ==
    /\ res.called
    /\ res.filter.itemIds = {}
    /\ res.filter.tagsAny = {"SMALL"}
    /\ res.layoutMax = 1
    /\ Len(res.out) = 1
    /\ res.out[1].id = "pin"
    /\ Len(SelectedItems(res)) = 2

CardsOfRoom(list, roomId) == SelectSeq(list, LAMBDA card : card.roomId = roomId)

\* C16: a category whose item feed is empty or absent has, once a theme
\* application has built it, exactly one room shell, no card and no
\* interaction target, and the application runs on to its end.
C16_EmptyFeedLeavesOneEmptyRoom ==
    \A roomId \in RoomIds :
        (SourceItems(roomId) = <<>> /\ lastBuilt[roomId] # "") =>
            /\ Len(roomNodes[roomId]) = 1
            /\ CardsOfRoom(targets, roomId) = <<>>
            /\ CardsOfRoom(dynamicCards, roomId) = <<>>
            /\ CardsOfRoom(cardGroups, roomId) = <<>>
            /\ \A app \in 1..MaxApps :
                    (apps[app].room = roomId /\ apps[app].pc # "idle") =>
                        apps[app].pc \in {"built", "done"}

\* an application has finished over an absent shop feed and placed the
\* projects cards
C16_AbsentFeedApplied ==
    /\ catalogConfig.shopItems = <<>>
    /\ LastApplicationDone
    /\ Len(roomNodes["shop"]) = 1
    /\ CardsOfRoom(targets, "shop") = <<>>
    /\ CardsOfRoom(targets, "projects") # <<>>

\* the cards of call `app` in a list, and those of its current room
CardsFrom(list, app) == SelectSeq(list, LAMBDA card : card.app = app)
RoomCardsFrom(list, app) ==
    SelectSeq(list, LAMBDA card : card.app = app /\ card.roomId = apps[app].room)

\* the card groups of call `app` that are not yet interaction targets
UnderConstruction(app) ==
    { i \in 1..Len(cardGroups) :
        /\ cardGroups[i].app = app
        /\ \A j \in 1..Len(targets) : targets[j] # cardGroups[i] }

\* C17: within one theme application at most one card is under construction,
\* the card of item k+1 is started only when the cards of the items before
\* it are finished, and so the targets of a room are appended in feed order.
C17_CardsBuiltOneByOneInFeedOrder ==
    \A app \in 1..MaxApps :
        /\ Cardinality(UnderConstruction(app)) <= 1
        /\ LET mine == CardsFrom(targets, app)
           IN  \A i, j \in 1..Len(mine) :
                  (i < j /\ mine[i].roomId = mine[j].roomId) =>
                      FeedPosition(mine[i]) < FeedPosition(mine[j])
        /\ (app = applyToken /\ apps[app].pc = "texture") =>
              LET done == RoomCardsFrom(targets, app)
                  items == RoomItems(apps[app].theme, apps[app].room)
              IN  /\ Len(done) = apps[app].index
                  /\ \A n \in 1..Len(done) : done[n].id = <<apps[app].room, items[n].id>>
                  /\ \A i \in UnderConstruction(app) :
                        cardGroups[i].id = <<apps[app].room, items[apps[app].index + 1].id>>

\* the third card of a room is under construction behind two finished ones
C17_ThirdCardBehindTwo ==
    /\ applyToken >= 1
    /\ apps[applyToken].pc = "texture"
    /\ apps[applyToken].index = 2
    /\ Len(RoomCardsFrom(targets, applyToken)) = 2
    /\ Cardinality(UnderConstruction(applyToken)) = 1

\* the box of a catalog collider, without the history tag
Box(entry) ==
    <<entry.roomId, entry.roomIndex, entry.minX, entry.maxX,
      entry.minZ, entry.maxZ, entry.minY, entry.maxY>>

\* how many entries of a collider list have the box of `entry`
Copies(cs, entry) == Cardinality({ i \in 1..Len(cs) : Box(cs[i]) = Box(entry) })

\* the colliders of the shells 0..n-1 of a category, each registered once
ShellsOnce(roomId) ==
    CreateShells(<<>>, roomId, catalogConfig.rooms[roomId], 0,
                 Len(roomNodes[roomId]), 0)

\* C18: once a category has been reconciled, the collider list holds for it
\* exactly the colliders of its n room shells, each wall or wall-segment
\* collider exactly once.
C18_CategoryCollidersExactlyOnce ==
    \A roomId \in RoomIds :
        lastBuilt[roomId] # "" =>
            /\ \A i \in 1..Len(ShellsOnce(roomId)) :
                  Copies(catColliders, ShellsOnce(roomId)[i]) = 1
            /\ \A j \in 1..Len(catColliders) :
                  catColliders[j].roomId = roomId =>
                      Copies(ShellsOnce(roomId), catColliders[j]) = 1

\* the first reconciliation of the shop grew its chain from no room, and every
\* collider of its shells is registered twice
C18_GrownChainRegisteredTwice ==
    /\ lastBuilt["shop"] # ""
    /\ Len(roomNodes["shop"]) >= 1
    /\ \A i \in 1..Len(ShellsOnce("shop")) :
          Copies(catColliders, ShellsOnce("shop")[i]) = 2

\* the scene right after loadScene, and the same scene with the theme annexes
\* of one floorplan config built onto it
Loaded == LoadScene(sceneCfg)
LoadedWith(themeFloorplan) ==
    BuildFloorplanAnnexes(
        [colliders |-> Loaded.colliders, records |-> Loaded.floorplanRecords,
         bounds |-> <<>>],
        themeFloorplan.annexes, "floorplan-theme",
        CreateProtectedFloorplanZones(sceneCfg), 1)

\* C19: after any sequence of applyThemeFloorplan calls the collider registry,
\* the annex records and NavigationBounds are those of the loaded scene with
\* the last config alone applied to it, and after resetThemeFloorplan they
\* equal their values right after scene load: no collider, record or
\* rectangle of an earlier theme annex is left.
C19_ThemeFloorplanFullyRecomputed ==
    /\ colliders = LoadedWith(activeFloorplan).colliders
    /\ floorplanRecords = LoadedWith(activeFloorplan).records
    /\ themeFloorplanBounds = LoadedWith(activeFloorplan).bounds
    /\ roomBounds = ApplyFloorplanBounds(sceneCfg, activeFloorplan,
                                         Loaded.baseFloorplanBounds,
                                         LoadedWith(activeFloorplan).bounds)
    /\ regHist.kind = "floorplan" =>
          /\ colliders = Loaded.colliders
          /\ floorplanRecords = Loaded.floorplanRecords
          /\ themeFloorplanBounds = <<>>
          /\ roomBounds = Loaded.roomBounds

\* resetThemeFloorplan has just removed the colliders of the theme annexes and
\* the bounds are those of the loaded scene again
C19_ResetAfterThemeAnnex ==
    /\ regHist.kind = "floorplan"
    /\ regHist.streak = 1
    /\ regHist.removed > 0
    /\ activeFloorplan = NoFloorplan
    /\ roomBounds = Loaded.roomBounds

\* a step leaves everything the system holds for one category as it was
CategoryUntouched(roomId) ==
    /\ CardsOfRoom(catColliders', roomId) = CardsOfRoom(catColliders, roomId)
    /\ roomNodes'[roomId] = roomNodes[roomId]
    /\ CardsOfRoom(targets', roomId) = CardsOfRoom(targets, roomId)
    /\ CardsOfRoom(dynamicCards', roomId) = CardsOfRoom(dynamicCards, roomId)
    /\ CardsOfRoom(cardGroups', roomId) = CardsOfRoom(cardGroups, roomId)

\* C20: a step of a theme application that clears, tears down or rebuilds the
\* category it works on leaves the colliders, room nodes, targets, dynamic
\* cards and card groups of the other category unchanged.
C20_OtherCategoryUntouched ==
    [][\A app \in 1..MaxApps :
          apps'[app] # apps[app] =>
              \A other \in RoomIds \ {apps'[app].room} : CategoryUntouched(other)]_vars

\* a second application is rebuilding the shop while the projects cards of
\* the first one are in place
C20_ShopRebuiltBesideProjects ==
    /\ applyToken = 2
    /\ apps[2].room = "shop"
    /\ apps[2].pc \in {"texture", "card", "built"}
    /\ apps[1].room = "projects"
    /\ CardsOfRoom(targets, "projects") # <<>>
    /\ CardsOfRoom(catColliders, "projects") # <<>>
    /\ Len(roomNodes["projects"]) >= 1

\* the depth walls of a room shell: "back" at z - depth/2, "front" at z + depth/2
DepthWalls == { "back", "front" }
DepthWallZ(config, roomIndex, wall) ==
    ShellPosition(config, roomIndex)[3]
        + (IF wall = "back" THEN -Half(ShellSize(config)[3]) ELSE Half(ShellSize(config)[3]))

\* the distinct X intervals of the colliders registered on a depth wall
WallIntervals(roomId, roomIndex, wall) ==
    LET config == catalogConfig.rooms[roomId]
        z == DepthWallZ(config, roomIndex, wall)
    IN  { <<catColliders[i].minX, catColliders[i].maxX>> :
            i \in { j \in 1..Len(catColliders) :
                      /\ catColliders[j].roomId = roomId
                      /\ catColliders[j].roomIndex = roomIndex
                      /\ catColliders[j].minZ = z - 210
                      /\ catColliders[j].maxZ = z + 210 } }

\* the wall lies on the side of room `roomIndex` where room `other` stands
WallFaces(config, roomIndex, wall, other) ==
    IF wall = "back"
    THEN ShellPosition(config, other)[3] < ShellPosition(config, roomIndex)[3]
    ELSE ShellPosition(config, other)[3] > ShellPosition(config, roomIndex)[3]

\* the wall of room `roomIndex` faces a neighbour in a chain of n rooms
FacesNeighbour(config, roomIndex, wall, n) ==
    \/ roomIndex > 0 /\ WallFaces(config, roomIndex, wall, roomIndex - 1)
    \/ roomIndex < n - 1 /\ WallFaces(config, roomIndex, wall, roomIndex + 1)

\* what the wall's colliders must be: two segments around the doorway
\* interval, or one collider of the full width
ConnectorWallAsClaimed(roomId, roomIndex, wall, n) ==
    LET config == catalogConfig.rooms[roomId]
        x == ShellPosition(config, roomIndex)[1]
        halfWidth == Half(ShellSize(config)[1])
        halfDoor == Half(ConnectorDoorWidth(config))
    IN  IF FacesNeighbour(config, roomIndex, wall, n)
        THEN WallIntervals(roomId, roomIndex, wall)
                = { <<x - halfWidth, x - halfDoor>>, <<x + halfDoor, x + halfWidth>> }
        ELSE WallIntervals(roomId, roomIndex, wall) = { <<x - halfWidth, x + halfWidth>> }

\* C21: in a built chain of n rooms, the wall of room i that faces room i-1
\* or room i+1 has a connector doorway (two segment colliders leaving the
\* doorway interval free), and a depth wall that faces no neighbour has a
\* single full-width collider.
C21_ConnectorsFaceNeighbours ==
    \A roomId \in RoomIds :
        lastBuilt[roomId] # "" =>
            \A i \in 1..Len(roomNodes[roomId]), wall \in DepthWalls :
                ConnectorWallAsClaimed(roomId, roomNodes[roomId][i], wall,
                                       Len(roomNodes[roomId]))

\* the same for the rooms of positive depth whose chain runs towards -z, as
\* the default step does
C21_ConnectorsFaceNeighboursBackward ==
    \A roomId \in RoomIds :
        ( /\ lastBuilt[roomId] # ""
          /\ ShellSize(catalogConfig.rooms[roomId])[3] > 0
          /\ ShellPosition(catalogConfig.rooms[roomId], 1)[3]
                < ShellPosition(catalogConfig.rooms[roomId], 0)[3] ) =>
            \A i \in 1..Len(roomNodes[roomId]), wall \in DepthWalls :
                ConnectorWallAsClaimed(roomId, roomNodes[roomId][i], wall,
                                       Len(roomNodes[roomId]))

\* a shop chain of three rooms running towards +z: the first room's doorway
\* is in its back wall, which faces away from the second room, and the wall
\* between the two is closed
C21_DoorwayFacesAway ==
    /\ lastBuilt["shop"] # ""
    /\ Len(roomNodes["shop"]) = 3
    /\ WallFaces(catalogConfig.rooms["shop"], 0, "front", 1)
    /\ Cardinality(WallIntervals("shop", 0, "back")) = 2
    /\ Cardinality(WallIntervals("shop", 0, "front")) = 1

\* a collider with strictly positive X and Z size
WellFormedCollider(entry) == entry.minX < entry.maxX /\ entry.minZ < entry.maxZ

\* the scene collider registry alone
SceneCollidersWellFormed ==
    \A i \in 1..Len(colliders) : WellFormedCollider(colliders[i])

\* C22: at all times every collider held in the scene collider registry or
\* in the catalog collider list has minX < maxX and minZ < maxZ.
C22_CollidersWellFormed ==
    /\ SceneCollidersWellFormed
    /\ \A i \in 1..Len(catColliders) : WellFormedCollider(catColliders[i])

\* the shop shell of a room configured without depth is built and its outer
\* wall collider has no Z size
C22_FlatOuterWall ==
    /\ lastBuilt["shop"] # ""
    /\ ShellSize(catalogConfig.rooms["shop"])[3] = 0
    /\ \E i \in 1..Len(catColliders) :
          /\ catColliders[i].roomId = "shop"
          /\ catColliders[i].minZ = catColliders[i].maxZ
          /\ catColliders[i].minX < catColliders[i].maxX

\* the X interval of the clamped front doorway
FrontDoorMinX(cfg) == FrontDoorCenterX(cfg) - Half(FrontDoorWidth(cfg))
FrontDoorMaxX(cfg) == FrontDoorCenterX(cfg) + Half(FrontDoorWidth(cfg))

JambNames == { "south_wall_left", "south_wall_right" }

\* the jamb colliders of the front wall in the registry
Jambs == { i \in 1..Len(colliders) :
            colliders[i].id[1] = "room" /\ colliders[i].id[2] \in JambNames }

PositiveSize(cfg) == \A k \in 1..3 : cfg.size[k] > 0

\* C23: for a room of positive size with a front entrance, the clamped
\* doorway is strictly narrower than the room and lies, together with both
\* jamb colliders, within the front wall's X extent [-width/2, +width/2].
C23_FrontEntranceWithinWall ==
    (sceneCfg.frontEntrance.enabled /\ PositiveSize(sceneCfg)) =>
        /\ FrontDoorWidth(sceneCfg) < sceneCfg.size[1]
        /\ -Half(sceneCfg.size[1]) <= FrontDoorMinX(sceneCfg)
        /\ FrontDoorMaxX(sceneCfg) <= Half(sceneCfg.size[1])
        /\ \A i \in Jambs :
              /\ -Half(sceneCfg.size[1]) <= colliders[i].minX
              /\ colliders[i].maxX <= Half(sceneCfg.size[1])

\* a room of positive size whose clamped doorway is narrower than the room
\* and reaches the end of the front wall, with a jamb collider past that end
C23_JambPastWallEnd ==
    /\ sceneCfg.frontEntrance.enabled
    /\ PositiveSize(sceneCfg)
    /\ FrontDoorWidth(sceneCfg) < sceneCfg.size[1]
    /\ FrontDoorMaxX(sceneCfg) = Half(sceneCfg.size[1])
    /\ \E i \in Jambs : colliders[i].minX >= Half(sceneCfg.size[1])

RoomSides == { "east", "west" }

\* the registry entries of one side wall of the main room
SideWallColliders(side) ==
    { i \in 1..Len(colliders) : colliders[i].tag = "room" /\ colliders[i].id[1] = side }

\* the Z intervals those entries cover
SideWallIntervals(side) ==
    { <<colliders[i].minZ, colliders[i].maxZ>> : i \in SideWallColliders(side) }

\* the wall's Z extent without the doorway interval, as non-empty intervals
WallBesideDoorway(cfg) ==
    LET halfDepth == Half(cfg.size[3])
        centerZ == Nullish(cfg.sideDoorways.centerZ, 0)
        halfDoor == Half(DoorwayWidth(cfg))
    IN  { span \in { <<-halfDepth, centerZ - halfDoor>>, <<centerZ + halfDoor, halfDepth>> } :
            span[1] < span[2] }

\* C24: with side doorways enabled the colliders of the east and of the west
\* wall cover the wall's Z extent [-depth/2, +depth/2] except exactly the
\* clamped doorway interval; with side doorways disabled each side has
\* exactly one collider spanning the full depth.
C24_SideWallsCoverAllButDoorway ==
    \A side \in RoomSides :
        IF sceneCfg.sideDoorways.enabled
        THEN SideWallIntervals(side) = WallBesideDoorway(sceneCfg)
        ELSE /\ Cardinality(SideWallColliders(side)) = 1
             /\ SideWallIntervals(side)
                    = { <<-Half(sceneCfg.size[3]), Half(sceneCfg.size[3])>> }

\* the same for doorways centred on the wall
C24_CentredDoorwaysCovered ==
    Nullish(sceneCfg.sideDoorways.centerZ, 0) = 0 => C24_SideWallsCoverAllButDoorway

\* a doorway moved off the wall's middle: the front segment of the east wall
\* reaches past the wall's end and the back segment starts inside the wall
C24_SegmentsShiftedWithDoorway ==
    /\ sceneCfg.sideDoorways.enabled
    /\ Nullish(sceneCfg.sideDoorways.centerZ, 0) > 0
    /\ \E i, j \in SideWallColliders("east") :
          /\ colliders[i].maxZ > Half(sceneCfg.size[3])
          /\ colliders[j].minZ > -Half(sceneCfg.size[3])
          /\ colliders[j].maxZ < colliders[i].minZ

\* the applicable colliders of the call, by index
Applicable == { i \in 1..Len(colliders) : Applies(colliders[i], res.sampleY) }

\* the point lies strictly inside the collider's rectangle grown by the radius
StrictlyWithin(point, radius, c) ==
    /\ c.minX - radius < point.x /\ point.x < c.maxX + radius
    /\ c.minZ - radius < point.z /\ point.z < c.maxZ + radius

\* two grown rectangles share no point
GrownApart(a, b, radius) ==
    \/ a.maxX + radius < b.minX - radius \/ b.maxX + radius < a.minX - radius
    \/ a.maxZ + radius < b.minZ - radius \/ b.maxZ + radius < a.minZ - radius

PairwiseDisjoint ==
    \A i, j \in Applicable :
        i # j => GrownApart(colliders[i], colliders[j], res.radius)

\* C25: when the resolver stops because a pass produced no correction, as it
\* does whenever the grown rectangles of the applicable colliders are
\* pairwise disjoint, the final position is strictly inside the grown
\* rectangle of no enabled collider whose Y range contains sampleY.
C25_SettledPositionIsFree ==
    res.called =>
        /\ PairwiseDisjoint => res.settled
        /\ res.settled =>
              \A i \in Applicable : ~StrictlyWithin(res.out, res.radius, colliders[i])

\* a call that was corrected out of two disjoint colliders' reach: one
\* correction, then a pass without any
C25_CorrectedThenSettled ==
    /\ res.called
    /\ Cardinality(Applicable) = 2
    /\ PairwiseDisjoint
    /\ res.hits = 1
    /\ res.settled
    /\ res.out # res.pos

\* a call that ran its three passes, each with a correction, and ends
\* strictly inside a collider's grown rectangle
C25_PassLimitReached ==
    /\ res.called
    /\ ~res.settled
    /\ \E i \in Applicable : StrictlyWithin(res.out, res.radius, colliders[i])

\* C26: a superseded applyTheme call that fails with an exception does not
\* reset the scene: the step in which it ends in its catch block leaves the
\* theme floorplan, the navigation bounds, the theme props and the colliders
\* as the newer call made them.
C26_SupersededFailureKeepsScene ==
    [][\A h \in 1..MaxRequests :
            (/\ handlers'[h].failed
             /\ ~handlers[h].failed
             /\ TokenAdvanced(handlers[h].token, themeApplyToken))
            => UNCHANGED <<activeFloorplan, floorplanRecords, themeFloorplanBounds,
                           roomBounds, propRecords, colliders>>]_vars

\* a superseded call has ended in its catch block, the newer call went on
\* to name its theme current, and the floorplan of that theme is gone
C26_NewerThemeWithoutFloorplan ==
    \E h \in 1..MaxRequests, newer \in 1..MaxRequests :
        /\ handlers[h].failed
        /\ handlers[h].token < handlers[newer].token
        /\ handlers[newer].ok
        /\ currentThemeName = handlers[newer].theme
        /\ ThemeOf(currentThemeName).floorplan = NeonFloorplan
        /\ activeFloorplan = NoFloorplan

\* the catch block of the current call: the reset undoes only its own work
C26_CurrentFailureResets ==
    \E h \in 1..MaxRequests :
        /\ handlers[h].failed
        /\ handlers[h].token = themeApplyToken
        /\ activeFloorplan = NoFloorplan

\* every apply call made so far has returned
AtmosphereSettled ==
    \A token \in 1..MaxApplies : applies[token].pc \in {"idle", "done"}

\* C27: once every apply call has returned, failed ones included, at most
\* one theme-atmosphere root is attached to the scene, and an attached root
\* is the one built by the most recent call.
C27_OneRootOfLatestApply ==
    AtmosphereSettled => sceneRoots \subseteq {atmosphereToken}

\* the same while no superseded call has ended in the catch block
C27_OneRootUnlessSupersededFailure ==
    (/\ AtmosphereSettled
     /\ \A token \in 1..MaxApplies :
            applies[token].failed => token = atmosphereToken)
    => sceneRoots \subseteq {atmosphereToken}

\* a superseded call failed, the latest call set its state, and both roots
\* are attached
C27_StaleRootLeftAttached ==
    /\ AtmosphereSettled
    /\ atmosphereState = atmosphereToken
    /\ \E token \in 1..MaxApplies :
        /\ token < atmosphereToken
        /\ applies[token].failed
        /\ sceneRoots = {token, atmosphereToken}

\* C28: after construction and after every reset, advance, update and seek,
\* for every step size and every draw of the generator, the number of
\* active drift events is at most config.maxConcurrentEvents.
C28_ActiveEventsWithinLimit ==
    Len(activeEvents) <= driftConfig.maxConcurrentEvents

\* spawn times 0.4 s apart under events of 90 s: the list is full and
\* spawn times went by without an event being added
C28_SpawnsHeldBack ==
    /\ driftConfig = NormalizeConfig(CrowdedDrift)
    /\ driftCall.op = "advance"
    /\ Len(activeEvents) = driftConfig.maxConcurrentEvents
    /\ nextEventAt > activeEvents[Len(activeEvents)].startTimeSeconds
                        + driftConfig.baseIntervalSeconds.max

\* C29: for every finite t >= 0 and every prior state, seek(t) leaves the
\* simulation time equal to t.
C29_SeekReachesTarget ==
    driftCall.op = "seek" => timeSeconds = Max(0, ToFiniteNumber(driftCall.arg, 0))

\* the time a seek starts to advance from
SeekStart == IF Max(0, ToFiniteNumber(driftCall.arg, 0)) < driftCall.from THEN 0
             ELSE driftCall.from

\* seek(t) does reach t from at most 60 s before it
C29_SeekReachesNearTarget ==
    (/\ driftCall.op = "seek"
     /\ Max(0, ToFiniteNumber(driftCall.arg, 0)) - SeekStart <= 60000)
    => timeSeconds = Max(0, ToFiniteNumber(driftCall.arg, 0))

\* seek(100) from a time before 40 s stops at that time plus 60 s
C29_SeekStopsShort ==
    /\ driftCall.op = "seek"
    /\ driftCall.arg = 100000
    /\ driftCall.from = 10000
    /\ timeSeconds = 70000

\* seek back to an earlier time went through a reset
C29_SeekRewound ==
    /\ driftCall.op = "seek"
    /\ driftCall.arg = 10000
    /\ driftCall.from > 10000
    /\ timeSeconds = 10000

\* C30: between two resets the all-required-complete reward is granted at
\* most once, and at each grant every objective that is not optional was
\* completed.
C30_RewardOnceWhenAllRequiredComplete ==
    /\ Len(rewards) <= 1
    /\ \A k \in 1..Len(rewards) :
        \A i \in 1..Len(rewards[k]) :
            ~rewards[k][i].optional => rewards[k][i].completed

\* the reward was granted, and a required objective that was completed then
\* has failed since
C30_RequiredFailedAfterReward ==
    /\ Len(rewards) = 1
    /\ allRequiredCompleteRewardGranted
    /\ \E i \in 1..Len(objectives) :
        /\ ~objectives[i].optional
        /\ rewards[1][i].completed
        /\ objectives[i].failed

=============================================================================
